---------------------------- MODULE Spec2Model ----------------------------
(***************************************************************************)
(* A model of the hiring-type classification engine of resume-ai-system    *)
(* (src/app/services/hiring_detector.py).  Job descriptions and posted     *)
(* dates are strings, handled character by character as the Python code    *)
(* handles them: str.lower, the `in` substring test, and the regular       *)
(* expressions of the detector are operators over strings.                 *)
(***************************************************************************)
EXTENDS Integers, Sequences, FiniteSets, TLC

(***************************************************************************)
(* Characters and strings                                                  *)
(***************************************************************************)
CharAt(s, i) == SubSeq(s, i, i)

UpperChars == "ABCDEFGHIJKLMNOPQRSTUVWXYZ"
LowerChars == "abcdefghijklmnopqrstuvwxyz"
DigitChars == "0123456789"

CharsOf(s) == {CharAt(s, i) : i \in 1..Len(s)}
UpperSet == CharsOf(UpperChars)
LowerSet == CharsOf(LowerChars)
DigitSet == CharsOf(DigitChars)

\* str.lower on one character
LowerChar(c) ==
    IF c \in UpperSet
    THEN CharAt(LowerChars, CHOOSE i \in 1..Len(UpperChars) : CharAt(UpperChars, i) = c)
    ELSE c

\* str.upper on one character
UpperChar(c) ==
    IF c \in LowerSet
    THEN CharAt(UpperChars, CHOOSE i \in 1..Len(LowerChars) : CharAt(LowerChars, i) = c)
    ELSE c

\* str.lower and str.upper work character by character; the text is
\* halved rather than peeled so that long texts do not nest deeply
RECURSIVE Lower(_)
Lower(s) ==
    IF s = "" THEN ""
    ELSE IF Len(s) = 1 THEN LowerChar(s)
    ELSE LET half == Len(s) \div 2
         IN  Lower(SubSeq(s, 1, half)) \o Lower(SubSeq(s, half + 1, Len(s)))

RECURSIVE Upper(_)
Upper(s) ==
    IF s = "" THEN ""
    ELSE IF Len(s) = 1 THEN UpperChar(s)
    ELSE LET half == Len(s) \div 2
         IN  Upper(SubSeq(s, 1, half)) \o Upper(SubSeq(s, half + 1, Len(s)))

\* Python's `sub in s`
Contains(sub, s) ==
    \E i \in 1..(Len(s) - Len(sub) + 1) : SubSeq(s, i, i + Len(sub) - 1) = sub

\* whether the literal w occurs in s at position p
MatchAt(s, p, w) == p + Len(w) - 1 <= Len(s) /\ SubSeq(s, p, p + Len(w) - 1) = w

\* regular-expression character classes (str patterns)
IsSpace(c) == c \in {" ", "\n", "\t", "\r"}                       \* \s
IsDigit(c) == c \in DigitSet                                       \* \d
IsWordChar(c) == c \in UpperSet \/ c \in LowerSet \/ c \in DigitSet \/ c = "_"   \* \w
\* str.isalnum on a non-empty string
IsAlnum(s) == s # "" /\ \A i \in 1..Len(s) :
                  CharAt(s, i) \in UpperSet \cup LowerSet \cup DigitSet

Min(S) == CHOOSE x \in S : \A y \in S : x <= y

\* Optional values: None is the empty tuple, a present value v is <<v>>
None == <<>>
Some(v) == <<v>>

(***************************************************************************)
(* HiringDetector.__init__: the three indicator tables.  A Python dict     *)
(* keeps its insertion order, which the *Order sequences record.           *)
(***************************************************************************)
active_indicators ==
    [urgency |-> <<"urgent hiring", "urgently hiring", "immediate start",
                   "immediate availability", "asap", "quick start",
                   "fast-paced hiring", "rapid hiring", "hiring immediately">>,
     specificity |-> <<"reporting to", "reporting directly to", "join our team of",
                       "backfill", "new team member", "specific role",
                       "funded position", "approved headcount", "open position">>,
     timeline |-> <<"start date", "expected start", "target start",
                    "hiring timeline", "interview schedule", "onboarding">>,
     vacancy |-> <<"open role", "vacancy", "opening", "position available",
                   "now hiring", "accepting applications", "apply now">>]
ActiveOrder == <<"urgency", "specificity", "timeline", "vacancy">>

passive_indicators ==
    [evergreen |-> <<"ongoing need", "continuous recruitment", "always hiring",
                     "evergreen", "rolling basis", "continuous hiring",
                     "year-round recruitment">>,
     pipeline |-> <<"future opportunities", "talent pool", "talent pipeline",
                    "talent community", "career opportunities", "join our database",
                    "future openings", "potential opportunities">>,
     general |-> <<"general interest", "open application", "speculative application",
                   "expression of interest", "submit your resume",
                   "keep you in mind", "future consideration">>,
     vague |-> <<"various positions", "multiple roles", "several opportunities",
                 "range of positions", "diverse opportunities">>]
PassiveOrder == <<"evergreen", "pipeline", "general", "vague">>

red_flags ==
    [location_blast |-> <<"multiple locations", "various locations", "nationwide",
                          "all locations", "remote - us", "remote - global">>,
     generic_contact |-> <<"email resume to", "send resume to", "forward cv to",
                           "jobs@", "careers@", "hr@", "recruiting@">>,
     vague_benefits |-> <<"competitive salary", "competitive compensation",
                          "market rate", "commensurate with experience",
                          "to be discussed", "tbd", "negotiable">>,
     no_team_info |-> <<"growing company", "dynamic team", "talented team",
                        "innovative company">>]
RedFlagOrder == <<"location_blast", "generic_contact", "vague_benefits", "no_team_info">>

\* the detector object as constructed: self.active_indicators, ...
NewDetector ==
    [active_indicators |-> active_indicators,
     passive_indicators |-> passive_indicators,
     red_flags |-> red_flags]

(***************************************************************************)
(* count_indicators                                                        *)
(***************************************************************************)
\* variant: the keywords are sought in the text as written
count_indicators_as_written(text, indicators) ==
    [category \in DOMAIN indicators |->
        Cardinality({k \in 1..Len(indicators[category]) :
                        Contains(indicators[category][k], text)})]

count_indicators(text, indicators) ==
    LET text_lower == Lower(text)
    IN  [category \in DOMAIN indicators |->
            Cardinality({k \in 1..Len(indicators[category]) :
                            Contains(indicators[category][k], text_lower)})]

\* sum(matches.values())
RECURSIVE SumValuesFrom(_, _, _)
SumValuesFrom(matches, order, k) ==
    IF k > Len(order) THEN 0
    ELSE matches[order[k]] + SumValuesFrom(matches, order, k + 1)
SumValues(matches, order) == SumValuesFrom(matches, order, 1)


(***************************************************************************)
(* extract_requisition_id: re.search of the two patterns, in order, with   *)
(* re.IGNORECASE.  A pattern is                                            *)
(*   (?:kw1|kw2|..)\s*(?:opt1|opt2|..)?\s*:?\s*([A-Z0-9_-]+)               *)
(* and is matched as the backtracking engine matches it: leftmost start,   *)
(* alternatives in order, greedy quantifiers first.                        *)
(***************************************************************************)
patterns ==
    << [keywords |-> <<"req", "requisition", "job">>, opts |-> <<"id", "#", "number">>],
       [keywords |-> <<"reference", "ref">>, opts |-> <<"number", "#">>] >>

\* [A-Z0-9_-] under re.IGNORECASE: the flag applies to the class as well
IdClass(c) == c \in UpperSet \/ c \in LowerSet \/ c \in DigitSet \/ c = "_" \/ c = "-"

ClassAt(text, p) == p <= Len(text) /\ IdClass(CharAt(text, p))

\* \s* from p (greedy): the position after the white space
RECURSIVE SkipWS(_, _)
SkipWS(text, p) ==
    IF p <= Len(text) /\ IsSpace(CharAt(text, p)) THEN SkipWS(text, p + 1) ELSE p

\* :? from p (greedy)
OptColon(text, p) == IF p <= Len(text) /\ CharAt(text, p) = ":" THEN p + 1 ELSE p

\* ([A-Z0-9_-]+) from p (greedy): the position after the run
RECURSIVE RunEnd(_, _)
RunEnd(text, p) == IF ClassAt(text, p) THEN RunEnd(text, p + 1) ELSE p

\* \s*(?:opts)?\s*:?\s*([A-Z0-9_-]+) from p: where group 1 starts, 0 when
\* this tail does not match.  The optional group is tried taken first and
\* then skipped; giving back white space or the colon reaches no other
\* position, since no option and no class character is a space or a colon.
TailMatch(text, tl, p, opts) ==
    LET p1 == SkipWS(text, p)
        taken == {k \in 1..Len(opts) : MatchAt(tl, p1, opts[k])}
        g1 == IF taken = {} THEN 0
              ELSE SkipWS(text, OptColon(text,
                       SkipWS(text, p1 + Len(opts[Min(taken)]))))
        g0 == SkipWS(text, OptColon(text, p1))
    IN  IF taken # {} /\ ClassAt(text, g1) THEN g1
        ELSE IF ClassAt(text, g0) THEN g0
        ELSE 0

\* the pattern anchored at start i: where group 1 starts, 0 when no match;
\* the keyword alternatives are tried in order
PatternMatchAt(text, tl, i, pat) ==
    LET try(k) == IF MatchAt(tl, i, pat.keywords[k])
                  THEN TailMatch(text, tl, i + Len(pat.keywords[k]), pat.opts)
                  ELSE 0
        hits == {k \in 1..Len(pat.keywords) : try(k) # 0}
    IN  IF hits = {} THEN 0 ELSE try(Min(hits))

\* re.search(pattern, text, re.IGNORECASE): the start of the leftmost match,
\* 0 when the pattern matches nowhere
SearchStart(text, pat) ==
    LET tl == Lower(text)
        starts == {i \in 1..Len(text) : PatternMatchAt(text, tl, i, pat) # 0}
    IN  IF starts = {} THEN 0 ELSE Min(starts)

\* match.group(1) of the match starting at i
Group1(text, pat, i) ==
    LET g == PatternMatchAt(text, Lower(text), i, pat)
    IN  SubSeq(text, g, RunEnd(text, g) - 1)

\* for pattern in patterns: match = re.search(..); if match: return match.group(1)
RECURSIVE ExtractFrom(_, _)
ExtractFrom(text, k) ==
    IF k > Len(patterns) THEN None
    ELSE LET i == SearchStart(text, patterns[k])
         IN  IF i # 0 THEN Some(Group1(text, patterns[k], i))
             ELSE ExtractFrom(text, k + 1)

\* variant: the match that starts first in the text, whichever pattern finds it
extract_requisition_id_leftmost(text) ==
    LET found == {k \in 1..Len(patterns) : SearchStart(text, patterns[k]) # 0}
    IN  IF found = {} THEN None
        ELSE LET k == CHOOSE j \in found : \A m \in found :
                          SearchStart(text, patterns[j]) <= SearchStart(text, patterns[m])
             IN  Some(Group1(text, patterns[k], SearchStart(text, patterns[k])))

extract_requisition_id(text) == ExtractFrom(text, 1)

(***************************************************************************)
(* analyze_req_id                                                          *)
(***************************************************************************)
evergreen_terms == <<"EVERGREEN", "GENERIC", "POOL", "PIPELINE", "GENERAL">>

ReasonNoId == "No requisition ID found - possible unstructured posting"
ReasonEvergreen(req_id) ==
    "Requisition ID '" \o req_id \o "' contains evergreen/generic terms"
ReasonSimple(req_id) == "Suspiciously simple req ID: '" \o req_id \o "'"
ReasonSpecific == "Specific requisition ID suggests real opening"

\* variant: the length check made before the evergreen check
analyze_req_id_length_first(opt_id) ==
    IF opt_id = None \/ opt_id = Some("")
    THEN [has_req_id |-> FALSE, is_suspicious |-> TRUE, reason |-> ReasonNoId]
    ELSE LET req_id == opt_id[1]
             req_id_upper == Upper(req_id)
         IN  IF Len(req_id) <= 4 /\ IsAlnum(req_id)
             THEN [has_req_id |-> TRUE, req_id |-> req_id, is_suspicious |-> TRUE,
                   reason |-> ReasonSimple(req_id)]
             ELSE IF \E k \in 1..Len(evergreen_terms) :
                         Contains(evergreen_terms[k], req_id_upper)
             THEN [has_req_id |-> TRUE, req_id |-> req_id, is_suspicious |-> TRUE,
                   reason |-> ReasonEvergreen(req_id)]
             ELSE [has_req_id |-> TRUE, req_id |-> req_id, is_suspicious |-> FALSE,
                   reason |-> ReasonSpecific]

\* variant: a posting without an ID is not suspicious
analyze_req_id_absent_ok(opt_id) ==
    IF opt_id = None \/ opt_id = Some("")
    THEN [has_req_id |-> FALSE, is_suspicious |-> FALSE, reason |-> ReasonNoId]
    ELSE LET req_id == opt_id[1]
             req_id_upper == Upper(req_id)
         IN  IF \E k \in 1..Len(evergreen_terms) :
                     Contains(evergreen_terms[k], req_id_upper)
             THEN [has_req_id |-> TRUE, req_id |-> req_id, is_suspicious |-> TRUE,
                   reason |-> ReasonEvergreen(req_id)]
             ELSE IF Len(req_id) <= 4 /\ IsAlnum(req_id)
             THEN [has_req_id |-> TRUE, req_id |-> req_id, is_suspicious |-> TRUE,
                   reason |-> ReasonSimple(req_id)]
             ELSE [has_req_id |-> TRUE, req_id |-> req_id, is_suspicious |-> FALSE,
                   reason |-> ReasonSpecific]

analyze_req_id(opt_id) ==
    IF opt_id = None \/ opt_id = Some("")                    \* if not req_id
    THEN [has_req_id |-> FALSE, is_suspicious |-> TRUE, reason |-> ReasonNoId]
    ELSE LET req_id == opt_id[1]
             req_id_upper == Upper(req_id)
         IN  IF \E k \in 1..Len(evergreen_terms) :
                     Contains(evergreen_terms[k], req_id_upper)
             THEN [has_req_id |-> TRUE, req_id |-> req_id, is_suspicious |-> TRUE,
                   reason |-> ReasonEvergreen(req_id)]
             ELSE IF Len(req_id) <= 4 /\ IsAlnum(req_id)
             THEN [has_req_id |-> TRUE, req_id |-> req_id, is_suspicious |-> TRUE,
                   reason |-> ReasonSimple(req_id)]
             ELSE [has_req_id |-> TRUE, req_id |-> req_id, is_suspicious |-> FALSE,
                   reason |-> ReasonSpecific]



(***************************************************************************)
(* detect_location_blast                                                   *)
(***************************************************************************)
\* the alternatives of cities_pattern, in order
cities ==
    <<"New York", "Los Angeles", "Chicago", "Houston", "Phoenix", "Philadelphia",
      "San Antonio", "San Diego", "Dallas", "San Jose", "Austin", "Jacksonville",
      "Fort Worth", "Columbus", "Charlotte", "San Francisco", "Indianapolis",
      "Seattle", "Denver", "Washington", "Boston", "El Paso", "Nashville",
      "Detroit", "Oklahoma City", "Portland", "Las Vegas", "Memphis", "Louisville",
      "Baltimore", "Milwaukee", "Albuquerque", "Tucson", "Fresno", "Mesa",
      "Sacramento", "Atlanta", "Kansas City", "Colorado Springs", "Omaha",
      "Raleigh", "Miami", "Long Beach", "Virginia Beach", "Oakland", "Minneapolis",
      "Tulsa", "Tampa", "Arlington", "New Orleans">>

\* whether position p (between characters p-1 and p) is a \b word boundary
WordAt(text, p) == p >= 1 /\ p <= Len(text) /\ IsWordChar(CharAt(text, p))
WordBoundary(text, p) == WordAt(text, p - 1) # WordAt(text, p)

\* \b(?:city1|city2|..)\b anchored at i (case-sensitive): the length of the
\* match, 0 when there is none
CityLenAt(text, i) ==
    IF ~WordBoundary(text, i) THEN 0
    ELSE LET hits == {k \in 1..Len(cities) :
                         /\ MatchAt(text, i, cities[k])
                         /\ WordBoundary(text, i + Len(cities[k]))}
         IN  IF hits = {} THEN 0 ELSE Len(cities[Min(hits)])

\* len(re.findall(cities_pattern, text)): non-overlapping matches, left to right
RECURSIVE CountCitiesFrom(_, _)
CountCitiesFrom(text, i) ==
    LET starts == {j \in i..Len(text) : CityLenAt(text, j) > 0}
    IN  IF starts = {} THEN 0
        ELSE LET j == Min(starts)
             IN  1 + CountCitiesFrom(text, j + CityLenAt(text, j))

\* variant: the city threshold is exclusive
IsBlastAboveFive(location_count, cities_found) ==
    location_count > 0 \/ cities_found > 5

IsBlast(location_count, cities_found) == location_count > 0 \/ cities_found >= 5

\* variant: the keywords are sought in the text as written
detect_location_blast_as_written(self, text) ==
    LET kws == self.red_flags["location_blast"]
        location_count == Cardinality({k \in 1..Len(kws) : Contains(kws[k], text)})
        cities_found == CountCitiesFrom(text, 1)
        is_blast == IsBlast(location_count, cities_found)
    IN  [is_location_blast |-> is_blast,
         cities_mentioned |-> cities_found,
         blast_keywords |-> location_count,
         reason |-> IF is_blast
                    THEN "Found " \o ToString(cities_found) \o " cities and "
                         \o ToString(location_count) \o " multi-location keywords"
                    ELSE "Normal location specificity"]

detect_location_blast(self, text) ==
    LET kws == self.red_flags["location_blast"]
        location_count == Cardinality({k \in 1..Len(kws) : Contains(kws[k], Lower(text))})
        cities_found == CountCitiesFrom(text, 1)
        is_blast == IsBlast(location_count, cities_found)
    IN  [is_location_blast |-> is_blast,
         cities_mentioned |-> cities_found,
         blast_keywords |-> location_count,
         reason |-> IF is_blast
                    THEN "Found " \o ToString(cities_found) \o " cities and "
                         \o ToString(location_count) \o " multi-location keywords"
                    ELSE "Normal location specificity"]

(***************************************************************************)
(* analyze_specificity                                                     *)
(***************************************************************************)
departments ==
    <<"engineering", "marketing", "sales", "operations", "product", "design",
      "data", "finance">>

\* \d+ from p (greedy): the position after the digits
RECURSIVE DigitsEnd(_, _)
DigitsEnd(text, p) ==
    IF p <= Len(text) /\ IsDigit(CharAt(text, p)) THEN DigitsEnd(text, p + 1) ELSE p

\* re.search(r'reporting to \w+|reports to \w+', text, re.IGNORECASE)
HasManager(tl) ==
    \E i \in 1..Len(tl) :
        \/ MatchAt(tl, i, "reporting to ") /\ WordAt(tl, i + Len("reporting to "))
        \/ MatchAt(tl, i, "reports to ") /\ WordAt(tl, i + Len("reports to "))

\* re.search(r'working on|project|tech stack|tools we use', text, re.IGNORECASE)
HasProject(tl) ==
    \/ Contains("working on", tl)
    \/ Contains("project", tl)
    \/ Contains("tech stack", tl)
    \/ Contains("tools we use", tl)

\* \d+k-\d+k anchored at i
RangeKAt(tl, i) ==
    LET j == DigitsEnd(tl, i)
        m == DigitsEnd(tl, j + 2)
    IN  /\ j > i
        /\ MatchAt(tl, j, "k-")
        /\ m > j + 2
        /\ MatchAt(tl, m, "k")

\* re.search(r'\$[\d,]+|salary range|pay range|\d+k-\d+k', text, re.IGNORECASE)
HasCompensation(tl) ==
    \/ \E i \in 1..Len(tl) :
          /\ CharAt(tl, i) = "$"
          /\ i + 1 <= Len(tl)
          /\ (IsDigit(CharAt(tl, i + 1)) \/ CharAt(tl, i + 1) = ",")
    \/ Contains("salary range", tl)
    \/ Contains("pay range", tl)
    \/ \E i \in 1..Len(tl) : RangeKAt(tl, i)

\* variant: the threshold is exclusive
IsSpecificAboveThree(specificity_score) == specificity_score > 3

IsSpecific(specificity_score) == specificity_score >= 3

analyze_specificity(text) ==
    LET tl == Lower(text)
        manager == HasManager(tl)
        dept_mentions == Cardinality({k \in 1..Len(departments) : Contains(departments[k], tl)})
        project == HasProject(tl)
        compensation == HasCompensation(tl)
        specificity_score == (IF manager THEN 2 ELSE 0)
                             + (IF dept_mentions >= 2 THEN 1 ELSE 0)
                             + (IF project THEN 1 ELSE 0)
                             + (IF compensation THEN 2 ELSE 0)
        details_found == (IF manager THEN <<"Specific manager mentioned">> ELSE <<>>)
                         \o (IF dept_mentions >= 2
                             THEN <<ToString(dept_mentions) \o " specific departments">>
                             ELSE <<>>)
                         \o (IF project THEN <<"Project/tech details mentioned">> ELSE <<>>)
                         \o (IF compensation THEN <<"Specific compensation mentioned">> ELSE <<>>)
    IN  [specificity_score |-> specificity_score,
         details_found |-> details_found,
         is_specific |-> IsSpecific(specificity_score),
         reason |-> IF specificity_score >= 3
                    THEN "High specificity suggests active hiring"
                    ELSE "Low specificity suggests generic pipeline"]



(***************************************************************************)
(* Dates.  A datetime is [ordinal, secs]: the proleptic Gregorian day      *)
(* number (date.toordinal) and the second of the day.                      *)
(***************************************************************************)
AllDigits(s) == s # "" /\ \A i \in 1..Len(s) : IsDigit(CharAt(s, i))

DigitValue(c) == (CHOOSE i \in 1..Len(DigitChars) : CharAt(DigitChars, i) = c) - 1

RECURSIVE ParseInt(_)
ParseInt(s) ==
    IF s = "" THEN 0
    ELSE 10 * ParseInt(SubSeq(s, 1, Len(s) - 1)) + DigitValue(CharAt(s, Len(s)))

IsLeap(y) == y % 4 = 0 /\ (y % 100 # 0 \/ y % 400 = 0)

DaysInMonth(y, m) ==
    IF m = 2 THEN (IF IsLeap(y) THEN 29 ELSE 28)
    ELSE IF m \in {4, 6, 9, 11} THEN 30 ELSE 31

RECURSIVE DaysBeforeMonth(_, _)
DaysBeforeMonth(y, m) ==
    IF m = 1 THEN 0 ELSE DaysBeforeMonth(y, m - 1) + DaysInMonth(y, m - 1)

ToOrdinal(y, m, d) ==
    LET p == y - 1
    IN  365 * p + (p \div 4) - (p \div 100) + (p \div 400) + DaysBeforeMonth(y, m) + d

ParseFailure == [ok |-> FALSE]

\* YYYY-MM-DD
DateValid(s) ==
    /\ Len(s) = 10
    /\ AllDigits(SubSeq(s, 1, 4)) /\ CharAt(s, 5) = "-"
    /\ AllDigits(SubSeq(s, 6, 7)) /\ CharAt(s, 8) = "-"
    /\ AllDigits(SubSeq(s, 9, 10))
    /\ ParseInt(SubSeq(s, 1, 4)) >= 1
    /\ ParseInt(SubSeq(s, 6, 7)) \in 1..12
    /\ ParseInt(SubSeq(s, 9, 10)) >= 1
    /\ ParseInt(SubSeq(s, 9, 10))
           <= DaysInMonth(ParseInt(SubSeq(s, 1, 4)), ParseInt(SubSeq(s, 6, 7)))

DateOrdinal(s) ==
    ToOrdinal(ParseInt(SubSeq(s, 1, 4)), ParseInt(SubSeq(s, 6, 7)),
              ParseInt(SubSeq(s, 9, 10)))

\* HH:MM:SS
TimeValid(s) ==
    /\ Len(s) = 8
    /\ AllDigits(SubSeq(s, 1, 2)) /\ CharAt(s, 3) = ":"
    /\ AllDigits(SubSeq(s, 4, 5)) /\ CharAt(s, 6) = ":"
    /\ AllDigits(SubSeq(s, 7, 8))
    /\ ParseInt(SubSeq(s, 1, 2)) <= 23
    /\ ParseInt(SubSeq(s, 4, 5)) <= 59
    /\ ParseInt(SubSeq(s, 7, 8)) <= 59

TimeSecs(s) ==
    3600 * ParseInt(SubSeq(s, 1, 2)) + 60 * ParseInt(SubSeq(s, 4, 5))
        + ParseInt(SubSeq(s, 7, 8))

\* +HH:MM or -HH:MM
OffsetValid(s) ==
    /\ Len(s) = 6
    /\ CharAt(s, 1) \in {"+", "-"}
    /\ AllDigits(SubSeq(s, 2, 3)) /\ CharAt(s, 4) = ":"
    /\ AllDigits(SubSeq(s, 5, 6))
    /\ ParseInt(SubSeq(s, 2, 3)) <= 23
    /\ ParseInt(SubSeq(s, 5, 6)) <= 59

\* datetime.fromisoformat on the layouts YYYY-MM-DD, YYYY-MM-DDTHH:MM:SS and
\* YYYY-MM-DDTHH:MM:SS+HH:MM; any other string raises ValueError.  The
\* result carries the wall-clock fields only: the caller drops the offset
\* with post_date.replace(tzinfo=None).
fromisoformat(s) ==
    IF Len(s) = 10 /\ DateValid(s)
    THEN [ok |-> TRUE, ordinal |-> DateOrdinal(s), secs |-> 0]
    ELSE IF /\ Len(s) \in {19, 25}
            /\ DateValid(SubSeq(s, 1, 10))
            /\ CharAt(s, 11) = "T"
            /\ TimeValid(SubSeq(s, 12, 19))
            /\ (Len(s) = 25 => OffsetValid(SubSeq(s, 20, 25)))
    THEN [ok |-> TRUE, ordinal |-> DateOrdinal(SubSeq(s, 1, 10)),
          secs |-> TimeSecs(SubSeq(s, 12, 19))]
    ELSE ParseFailure

\* str.replace(old, new) for a one-character old
RECURSIVE Replace(_, _, _)
Replace(s, old, new) ==
    IF s = "" THEN ""
    ELSE (IF CharAt(s, 1) = old THEN new ELSE CharAt(s, 1))
         \o Replace(SubSeq(s, 2, Len(s)), old, new)

\* (datetime.now() - post_date).days: timedelta normalises 0 <= seconds < 86400
AgeDays(now, post) ==
    (now.ordinal - post.ordinal) - (IF now.secs < post.secs THEN 1 ELSE 0)

\* variant: stale from 45 days on
PostingAgeFrom45(posted_date, now) ==
    IF posted_date = None \/ posted_date = Some("")
    THEN [posting_age_days |-> None, is_stale |-> FALSE, error |-> None]
    ELSE LET post_date == fromisoformat(Replace(posted_date[1], "Z", "+00:00"))
         IN  IF ~post_date.ok
             THEN [posting_age_days |-> None, is_stale |-> FALSE, error |-> None]
             ELSE [posting_age_days |-> Some(AgeDays(now, post_date)),
                   is_stale |-> AgeDays(now, post_date) >= 45,
                   error |-> None]

\* variant: a date that cannot be parsed counts as posted at year 1
PostingAgeEpochOnFailure(posted_date, now) ==
    IF posted_date = None \/ posted_date = Some("")
    THEN [posting_age_days |-> None, is_stale |-> FALSE, error |-> None]
    ELSE LET parsed == fromisoformat(Replace(posted_date[1], "Z", "+00:00"))
             post_date == IF parsed.ok THEN parsed ELSE [ok |-> TRUE, ordinal |-> 1, secs |-> 0]
         IN  [posting_age_days |-> Some(AgeDays(now, post_date)),
              is_stale |-> AgeDays(now, post_date) > 45,
              error |-> None]

\* variant: no except clause, the ValueError leaves the call
PostingAgeUncaught(posted_date, now) ==
    IF posted_date = None \/ posted_date = Some("")
    THEN [posting_age_days |-> None, is_stale |-> FALSE, error |-> None]
    ELSE LET post_date == fromisoformat(Replace(posted_date[1], "Z", "+00:00"))
         IN  IF ~post_date.ok
             THEN [posting_age_days |-> None, is_stale |-> FALSE,
                   error |-> Some("ValueError")]
             ELSE [posting_age_days |-> Some(AgeDays(now, post_date)),
                   is_stale |-> AgeDays(now, post_date) > 45,
                   error |-> None]

\* step 3 of analyze_hiring_type: the posting age, with its try/except.
\* error is the exception that leaves the block: the bare except lets none out.
PostingAge(posted_date, now) ==
    IF posted_date = None \/ posted_date = Some("")              \* if posted_date:
    THEN [posting_age_days |-> None, is_stale |-> FALSE, error |-> None]
    ELSE LET post_date == fromisoformat(Replace(posted_date[1], "Z", "+00:00"))
         IN  IF ~post_date.ok
             THEN [posting_age_days |-> None, is_stale |-> FALSE, error |-> None]
             ELSE [posting_age_days |-> Some(AgeDays(now, post_date)),
                   is_stale |-> AgeDays(now, post_date) > 45,
                   error |-> None]



(***************************************************************************)
(* analyze_hiring_type.  The labels, insights and strategy items are the   *)
(* source's strings without their leading emoji.                           *)
(***************************************************************************)
ActiveHiring == "Active Hiring"
PipelineEvergreen == "Pipeline/Evergreen"
MixedSignals == "Mixed Signals"

\* variant: a requisition ID earns nothing
FinalActiveNoIdBonus(active_score, specificity_analysis, req_id_analysis) ==
    active_score * 2
    + (IF specificity_analysis.is_specific THEN 3 ELSE 0)

\* variant: a suspicious requisition ID costs the two points it cannot earn
FinalActivePenalised(active_score, specificity_analysis, req_id_analysis) ==
    active_score * 2
    + (IF specificity_analysis.is_specific THEN 3 ELSE 0)
    + (IF ~req_id_analysis.is_suspicious THEN 2 ELSE -2)

\* variant: the requisition bonus of the active score is always given
FinalActiveAlwaysId(active_score, specificity_analysis, req_id_analysis) ==
    active_score * 2
    + (IF specificity_analysis.is_specific THEN 3 ELSE 0)
    + 2

\* step 4: the weighted final scores
FinalActive(active_score, specificity_analysis, req_id_analysis) ==
    active_score * 2
    + (IF specificity_analysis.is_specific THEN 3 ELSE 0)
    + (IF ~req_id_analysis.is_suspicious THEN 2 ELSE 0)

\* variant: a location blast adds nothing
FinalPassiveNoBlast(passive_score, red_flag_score, req_id_analysis, location_analysis, is_stale) ==
    passive_score * 2
    + (IF req_id_analysis.is_suspicious THEN 3 ELSE 0)
    + red_flag_score
    + (IF is_stale THEN 2 ELSE 0)

\* variant: the red-flag count doubled like the other keyword counts
FinalPassiveDoubled(passive_score, red_flag_score, req_id_analysis, location_analysis, is_stale) ==
    passive_score * 2
    + (IF req_id_analysis.is_suspicious THEN 3 ELSE 0)
    + (IF location_analysis.is_location_blast THEN 3 ELSE 0)
    + red_flag_score * 2
    + (IF is_stale THEN 2 ELSE 0)

FinalPassive(passive_score, red_flag_score, req_id_analysis, location_analysis, is_stale) ==
    passive_score * 2
    + (IF req_id_analysis.is_suspicious THEN 3 ELSE 0)
    + (IF location_analysis.is_location_blast THEN 3 ELSE 0)
    + red_flag_score
    + (IF is_stale THEN 2 ELSE 0)

\* variant: the comparison written with >=
ExceedsRatioNonStrict(x, y) == 2 * x >= 3 * y

\* x > y * 1.5 on integers (the float product is exact)
ExceedsRatio(x, y) == 2 * x > 3 * y

\* variant: High only above 8
ConfidenceOfAbove(score) == IF score > 8 THEN "High" ELSE "Medium"

ConfidenceOf(score) == IF score >= 8 THEN "High" ELSE "Medium"

ExplanationActive ==
    "This is a real, funded position with an immediate hiring need. "
    \o "The company is actively screening candidates now and likely has a "
    \o "specific vacancy to fill. Expect a structured process with faster response times."
ExplanationPipeline ==
    "This appears to be a talent pipeline or 'evergreen' requisition. "
    \o "The company is collecting resumes for future opportunities rather than "
    \o "filling an immediate vacancy. Response times may be slow or nonexistent."
ExplanationMixed ==
    "This posting shows conflicting indicators. It may be a legitimate role "
    \o "with poor job description quality, or a semi-active pipeline."

\* variant: the explanation of an active posting quotes its score
DetermineHiringTypeQuotingScore(final_active_score, final_passive_score) ==
    IF ExceedsRatio(final_active_score, final_passive_score)
    THEN [hiring_type |-> ActiveHiring,
          confidence |-> ConfidenceOf(final_active_score),
          explanation |-> ExplanationActive \o " (score "
                              \o ToString(final_active_score) \o ")"]
    ELSE IF ExceedsRatio(final_passive_score, final_active_score)
    THEN [hiring_type |-> PipelineEvergreen,
          confidence |-> ConfidenceOf(final_passive_score),
          explanation |-> ExplanationPipeline]
    ELSE [hiring_type |-> MixedSignals,
          confidence |-> "Low",
          explanation |-> ExplanationMixed]

\* step 5: hiring type, confidence and explanation
DetermineHiringType(final_active_score, final_passive_score) ==
    IF ExceedsRatio(final_active_score, final_passive_score)
    THEN [hiring_type |-> ActiveHiring,
          confidence |-> ConfidenceOf(final_active_score),
          explanation |-> ExplanationActive]
    ELSE IF ExceedsRatio(final_passive_score, final_active_score)
    THEN [hiring_type |-> PipelineEvergreen,
          confidence |-> ConfidenceOf(final_passive_score),
          explanation |-> ExplanationPipeline]
    ELSE [hiring_type |-> MixedSignals,
          confidence |-> "Low",
          explanation |-> ExplanationMixed]

\* variant: of several categories with the highest count, the last one wins
TopCategoryLast(matches, order) ==
    order[CHOOSE k \in 1..Len(order) :
             /\ \A j \in 1..Len(order) : matches[order[j]] <= matches[order[k]]
             /\ \A j \in (k + 1)..Len(order) : matches[order[j]] < matches[order[k]]]

\* max(matches.items(), key=lambda x: x[1]): the first category, in dict
\* order, that has the highest count
TopCategory(matches, order) ==
    order[Min({k \in 1..Len(order) :
                  \A j \in 1..Len(order) : matches[order[j]] <= matches[order[k]]})]

SignalInsights(score, matches, order, what) ==
    IF score > 0
    THEN <<ToString(score) \o what>>
         \o (LET top == TopCategory(matches, order)
             IN  IF matches[top] > 0
                 THEN <<"   -> Strongest: " \o top \o " (" \o ToString(matches[top])
                        \o " mentions)">>
                 ELSE <<>>)
    ELSE <<>>

\* variant: the summary of the larger raw score comes first
InsightsLargerFirst(l) ==
    LET active == SignalInsights(l.active_score, l.active_matches, ActiveOrder,
                                 " active hiring signals detected")
        passive == SignalInsights(l.passive_score, l.passive_matches, PassiveOrder,
                                  " pipeline/evergreen signals detected")
    IN  (IF l.passive_score > l.active_score
         THEN passive \o active ELSE active \o passive)
        \o (IF l.red_flag_score > 0
            THEN <<ToString(l.red_flag_score) \o " resume harvesting red flags">>
            ELSE <<>>)
        \o (IF l.req_id_analysis.is_suspicious
            THEN <<l.req_id_analysis.reason>> ELSE <<>>)
        \o (IF l.location_analysis.is_location_blast
            THEN <<l.location_analysis.reason>> ELSE <<>>)
        \o (IF ~l.specificity_analysis.is_specific
            THEN <<"Low specificity - vague job description">> ELSE <<>>)
        \o (IF l.is_stale
            THEN <<"Posting is " \o ToString(l.posting_age_days[1])
                   \o " days old (likely stale)">>
            ELSE <<>>)

\* step 6: the insights list
\* (l holds the locals of analyze_hiring_type that the step reads)
Insights(l) ==
    SignalInsights(l.active_score, l.active_matches, ActiveOrder,
                   " active hiring signals detected")
    \o SignalInsights(l.passive_score, l.passive_matches, PassiveOrder,
                      " pipeline/evergreen signals detected")
    \o (IF l.red_flag_score > 0
        THEN <<ToString(l.red_flag_score) \o " resume harvesting red flags">> ELSE <<>>)
    \o (IF l.req_id_analysis.is_suspicious THEN <<l.req_id_analysis.reason>> ELSE <<>>)
    \o (IF l.location_analysis.is_location_blast
        THEN <<l.location_analysis.reason>> ELSE <<>>)
    \o (IF ~l.specificity_analysis.is_specific
        THEN <<"Low specificity - vague job description">> ELSE <<>>)
    \o (IF l.is_stale
        THEN <<"Posting is " \o ToString(l.posting_age_days[1])
               \o " days old (likely stale)">>
        ELSE <<>>)

\* step 7: the application strategy
Strategy(hiring_type) ==
    IF hiring_type = ActiveHiring
    THEN <<"Apply quickly - this is a time-sensitive opportunity",
           "Tailor resume to exact requirements in posting",
           "Expect standard interview process with defined timeline",
           "Competition is high - differentiate yourself clearly",
           "Follow up within 1 week if no response">>
    ELSE IF hiring_type = PipelineEvergreen
    THEN <<"Set expectations for slow/no response",
           "Try to network with employees instead of just applying",
           "Look for actual active roles at this company",
           "Consider reaching out directly to hiring managers",
           "This may be resume harvesting - apply selectively">>
    ELSE <<"Research company's careers page directly",
           "Call/email recruiter to verify if role is active",
           "Prepare for both structured and exploratory interviews",
           "Weigh time investment carefully">>

\* what a call leaves behind: the returned dict, or the exception it raised
Returned(value) == [raised |-> None, value |-> value]
Raised(exc) == [raised |-> exc]

analyze_hiring_type(self, job_description, posted_date, now) ==
    LET active_matches == count_indicators(job_description, self.active_indicators)
        passive_matches == count_indicators(job_description, self.passive_indicators)
        red_flag_matches == count_indicators(job_description, self.red_flags)
        active_score == SumValues(active_matches, ActiveOrder)
        passive_score == SumValues(passive_matches, PassiveOrder)
        red_flag_score == SumValues(red_flag_matches, RedFlagOrder)
        req_id_analysis == analyze_req_id(extract_requisition_id(job_description))
        location_analysis == detect_location_blast(self, job_description)
        specificity_analysis == analyze_specificity(job_description)
        age == PostingAge(posted_date, now)
        final_active_score ==
            FinalActive(active_score, specificity_analysis, req_id_analysis)
        final_passive_score ==
            FinalPassive(passive_score, red_flag_score, req_id_analysis,
                         location_analysis, age.is_stale)
        verdict == DetermineHiringType(final_active_score, final_passive_score)
    IN  IF age.error # None THEN Raised(age.error)
        ELSE Returned(
           [hiring_type |-> verdict.hiring_type,
            confidence |-> verdict.confidence,
            explanation |-> verdict.explanation,
            active_score |-> final_active_score,
            passive_score |-> final_passive_score,
            red_flag_score |-> red_flag_score,
            active_indicators |-> active_matches,
            passive_indicators |-> passive_matches,
            red_flags |-> red_flag_matches,
            requisition_analysis |-> req_id_analysis,
            location_analysis |-> location_analysis,
            specificity_analysis |-> specificity_analysis,
            posting_age_days |-> age.posting_age_days,
            is_stale |-> age.is_stale,
            insights |-> Insights(
                [active_score |-> active_score, active_matches |-> active_matches,
                 passive_score |-> passive_score, passive_matches |-> passive_matches,
                 red_flag_score |-> red_flag_score,
                 req_id_analysis |-> req_id_analysis,
                 location_analysis |-> location_analysis,
                 specificity_analysis |-> specificity_analysis,
                 posting_age_days |-> age.posting_age_days,
                 is_stale |-> age.is_stale]),
            application_strategy |-> Strategy(verdict.hiring_type)])



(***************************************************************************)
(* SemanticMatcher (src/app/services/semantic_matcher.py).  An embedding   *)
(* is a vector of integers; a float is the exact fraction n / d (d > 0) of *)
(* two integers, so that comparisons and rounding are exact.  Returned     *)
(* match scores, rounded to two decimals, are integers in hundredths.      *)
(***************************************************************************)
\* self.model.encode(text, convert_to_numpy=True): the sentence encoder is a
\* fixed function of the text; these are the texts it is applied to here
Encode(text) ==
    CASE text = "python data scientist" -> <<0, 0, 1>>
      [] text = "data scientist, python and sql" -> <<0, 3, 4>>
      [] text = "senior data scientist, python" -> <<0, 3, 4>>
      [] text = "machine learning engineer" -> <<94, 2650, 3535>>
      [] text = "backend developer" -> <<2, 1, 2>>
      [] text = "data analyst" -> <<0, 4, 3>>
      [] text = "business analyst" -> <<4, 0, 3>>
      [] text = "marketing manager" -> <<12, 0, -5>>

\* np.dot
RECURSIVE Dot(_, _)
Dot(u, v) == IF u = <<>> THEN 0 ELSE Head(u) * Head(v) + Dot(Tail(u), Tail(v))

\* the integer square root of x, sought between lo and hi
RECURSIVE ISqrtIn(_, _, _)
ISqrtIn(x, lo, hi) ==
    IF lo = hi THEN lo
    ELSE LET mid == (lo + hi + 1) \div 2
         IN  IF mid * mid <= x THEN ISqrtIn(x, mid, hi) ELSE ISqrtIn(x, lo, mid - 1)

\* np.linalg.norm, for the vectors above, whose norms are whole numbers
Norm(v) == ISqrtIn(Dot(v, v), 0, 46340)

\* the float n / d compared with a whole number
AtLeast(x, bound) == x.n >= bound * x.d

\* round(x, 2) in hundredths: the nearest, and of two equally near the even
Round2(x) ==
    LET twice == 200 * x.n
        down == twice \div (2 * x.d)
        rest == twice % (2 * x.d)
    IN  IF rest < x.d THEN down
        ELSE IF rest > x.d THEN down + 1
        ELSE IF down % 2 = 0 THEN down ELSE down + 1

\* the matcher as constructed: an empty embedding cache
NewMatcher == [embedding_cache |-> <<>>]

\* f"resume_{resume_id}" if resume_id else None (likewise for jobs)
CacheKey(prefix, opt_id) ==
    IF opt_id = None \/ opt_id = Some("") THEN None ELSE Some(prefix \o opt_id[1])

\* get_embedding: the embedding returned and the cache left behind
get_embedding(self, text, cache_key) ==
    IF cache_key # None /\ cache_key[1] \in DOMAIN self.embedding_cache
    THEN [embedding |-> self.embedding_cache[cache_key[1]], self |-> self]
    ELSE LET embedding == Encode(text)
         IN  [embedding |-> embedding,
              self |-> IF cache_key # None
                       THEN [self EXCEPT !.embedding_cache =
                                (cache_key[1] :> embedding) @@ @]
                       ELSE self]

\* similarity * 100, as a fraction
calculate_similarity(embedding1, embedding2) ==
    [n |-> 100 * Dot(embedding1, embedding2),
     d |-> Norm(embedding1) * Norm(embedding2)]

_get_match_level(score) ==
    IF AtLeast(score, 80) THEN "Excellent Match"
    ELSE IF AtLeast(score, 65) THEN "Good Match"
    ELSE IF AtLeast(score, 50) THEN "Fair Match"
    ELSE "Weak Match"

RecommendExcellent == "Apply immediately! Your profile is an excellent fit for this role."
RecommendGood == "Strong candidate. Tailor your resume to highlight relevant skills."
RecommendFair == "Possible fit. Consider gaining more relevant experience or skills."
RecommendWeak == "Weak match. Focus on roles that better align with your background."

_get_recommendation(score) ==
    IF AtLeast(score, 80) THEN RecommendExcellent
    ELSE IF AtLeast(score, 65) THEN RecommendGood
    ELSE IF AtLeast(score, 50) THEN RecommendFair
    ELSE RecommendWeak

\* match_resume_to_job: the dict returned and the matcher left behind
match_resume_to_job(self, resume_text, job_description, resume_id, job_id) ==
    LET resume == get_embedding(self, resume_text, CacheKey("resume_", resume_id))
        job == get_embedding(resume.self, job_description, CacheKey("job_", job_id))
        overall_score == calculate_similarity(resume.embedding, job.embedding)
    IN  [self |-> job.self,
         value |-> [match_score |-> Round2(overall_score),
                    match_level |-> (IF AtLeast(overall_score, 80) THEN "Excellent Match"
                                     ELSE IF AtLeast(overall_score, 65) THEN "Good Match"
                                     ELSE IF AtLeast(overall_score, 50) THEN "Fair Match"
                                     ELSE "Weak Match"),
                    recommendation |-> _get_recommendation(overall_score)]]

\* job.get('description', '')[:200] + "..."
Excerpt(description) == SubSeq(description, 1, Min({200, Len(description)})) \o "..."

\* the loop over jobs: the entries appended and the matcher left behind
RECURSIVE MatchEach(_, _, _, _)
MatchEach(self, resume_embedding, jobs, matches) ==
    IF jobs = <<>> THEN [self |-> self, matches |-> matches]
    ELSE LET job == Head(jobs)
             got == get_embedding(self, job.description, CacheKey("job_", job.id))
             score == calculate_similarity(resume_embedding, got.embedding)
             entry == [job_id |-> job.id,
                       job_title |-> job.title,
                       company |-> job.company,
                       match_score |-> Round2(score),
                       match_level |-> _get_match_level(score),
                       job_description |-> Excerpt(job.description)]
         IN  MatchEach(got.self, resume_embedding, Tail(jobs), Append(matches, entry))

\* variant: an entry is inserted before the entries that score the same
RECURSIVE InsertBeforeEqual(_, _)
InsertBeforeEqual(sorted, entry) ==
    IF sorted = <<>> THEN <<entry>>
    ELSE IF Head(sorted).match_score > entry.match_score
         THEN <<Head(sorted)>> \o InsertBeforeEqual(Tail(sorted), entry)
         ELSE <<entry>> \o sorted

\* list.sort(key=match_score, reverse=True): stable, highest first; an entry
\* is inserted after the entries that score at least as much
RECURSIVE InsertByScore(_, _)
InsertByScore(sorted, entry) ==
    IF sorted = <<>> THEN <<entry>>
    ELSE IF Head(sorted).match_score >= entry.match_score
         THEN <<Head(sorted)>> \o InsertByScore(Tail(sorted), entry)
         ELSE <<entry>> \o sorted
RECURSIVE SortByScore(_)
SortByScore(matches) ==
    IF matches = <<>> THEN <<>>
    ELSE InsertByScore(SortByScore(SubSeq(matches, 1, Len(matches) - 1)),
                       matches[Len(matches)])

\* match_resume_to_multiple_jobs: the list returned and the matcher left behind
match_resume_to_multiple_jobs(self, resume_text, jobs, resume_id) ==
    LET resume == get_embedding(self, resume_text, CacheKey("resume_", resume_id))
        each == MatchEach(resume.self, resume.embedding, jobs, <<>>)
    IN  [self |-> each.self, value |-> SortByScore(each.matches)]


(***************************************************************************)
(* ResumeParser: text extraction and the regular expressions of the        *)
(* contact, skills and education extractors.                               *)
(***************************************************************************)
tech_skills ==
    << "python", "java", "javascript", "typescript", "c++", "c#", "sql", "r", "go", "rust", "scala",
       "react", "vue", "angular", "node.js", "express", "django", "flask", "fastapi", "spring",
       "tensorflow", "pytorch", "scikit-learn", "pandas", "numpy", "keras", "opencv",
       "aws", "azure", "gcp", "docker", "kubernetes", "jenkins", "terraform", "ansible",
       "postgresql", "mysql", "mongodb", "redis", "cassandra", "elasticsearch",
       "machine learning", "deep learning", "nlp", "computer vision", "data science",
       "rest api", "graphql", "microservices", "agile", "scrum", "git", "ci/cd" >>

NewParser == [tech_skills |-> tech_skills]

Max(S) == CHOOSE x \in S : \A y \in S : x >= y

\* str.strip(): without the whitespace at both ends
Strip(s) ==
    LET keep == {i \in 1..Len(s) : ~IsSpace(CharAt(s, i))}
    IN  IF keep = {} THEN "" ELSE SubSeq(s, Min(keep), Max(keep))

\* the text of the pages, a newline after each
RECURSIVE JoinPages(_)
JoinPages(pages) ==
    IF pages = <<>> THEN "" ELSE Head(pages) \o "\n" \o JoinPages(Tail(pages))

\* extract_text_from_pdf, the file given as the texts of its pages
extract_text_from_pdf(pages) == Strip(JoinPages(pages))

IsLetter(c) == c \in UpperSet \/ c \in LowerSet
IsLocalChar(c) == IsLetter(c) \/ IsDigit(c) \/ c \in {".", "_", "%", "+", "-"}   \* [A-Za-z0-9._%+-]
IsDomainChar(c) == IsLetter(c) \/ IsDigit(c) \/ c \in {".", "-"}                 \* [A-Za-z0-9.-]
IsTldChar(c) == IsLetter(c) \/ c = "|"                                           \* [A-Z|a-z]

\* the ends of the matches of the email pattern that start at i:
\* \b local+ @ domain+ \. tld{2,} \b
EmailEnds(text, i) ==
    IF ~(WordBoundary(text, i) /\ IsLocalChar(CharAt(text, i))) THEN {}
    ELSE LET ats == {a \in (i + 1)..Len(text) : CharAt(text, a) = "@"}
         IN  IF ats = {} THEN {}
             ELSE LET a == Min(ats)
                  IN  IF \E k \in i..(a - 1) : ~IsLocalChar(CharAt(text, k)) THEN {}
                      ELSE {e \in (a + 4)..Len(text) :
                              /\ WordBoundary(text, e + 1)
                              /\ \E d \in (a + 2)..(e - 2) :
                                   /\ CharAt(text, d) = "."
                                   /\ \A k \in (a + 1)..(d - 1) : IsDomainChar(CharAt(text, k))
                                   /\ \A k \in (d + 1)..e : IsTldChar(CharAt(text, k))}

\* re.search: the leftmost start, and from it the longest domain and ending
extract_email(text) ==
    LET starts == {i \in 1..Len(text) : EmailEnds(text, i) # {}}
    IN  IF starts = {} THEN None
        ELSE LET i == Min(starts)
             IN  Some(SubSeq(text, i, Max(EmailEnds(text, i))))

IsSep(c) == c \in {"-", "."} \/ IsSpace(c)                                       \* [-.\s]
CharIs(text, p, c) == p <= Len(text) /\ CharAt(text, p) = c
SepAt(text, p) == p <= Len(text) /\ IsSep(CharAt(text, p))
DigitsAt(text, p, n) == p + n - 1 <= Len(text) /\ \A k \in p..(p + n - 1) : IsDigit(CharAt(text, k))

\* \(?\d{3}\)?[-.\s]?\d{3}[-.\s]?\d{4} from p: the position after the match,
\* 0 when there is none (an optional character is never a digit, so taking
\* it when it is there is the only way to match)
NationalEnd(text, p) ==
    LET p1 == IF CharIs(text, p, "(") THEN p + 1 ELSE p
        p2 == p1 + 3
        p3 == IF CharIs(text, p2, ")") THEN p2 + 1 ELSE p2
        p4 == IF SepAt(text, p3) THEN p3 + 1 ELSE p3
        p5 == p4 + 3
        p6 == IF SepAt(text, p5) THEN p5 + 1 ELSE p5
    IN  IF DigitsAt(text, p1, 3) /\ DigitsAt(text, p4, 3) /\ DigitsAt(text, p6, 4)
        THEN p6 + 4 ELSE 0

\* the country prefix (\+\d{1,3}[-.\s]??)? tried in the order of the
\* engine: three digits before two before one, each without the separator
\* before with it, and last no prefix at all
PrefixEnds(text, i) ==
    IF ~CharIs(text, i, "+") THEN <<i>>
    ELSE LET with(k) == IF DigitsAt(text, i + 1, k)
                        THEN <<i + 1 + k>> \o (IF SepAt(text, i + 1 + k) THEN <<i + 2 + k>> ELSE <<>>)
                        ELSE <<>>
         IN  with(3) \o with(2) \o with(1) \o <<i>>

\* the position after the phone match that starts at i, 0 when none
PhoneEndAt(text, i) ==
    LET tries == PrefixEnds(text, i)
        good == {k \in DOMAIN tries : NationalEnd(text, tries[k]) # 0}
    IN  IF good = {} THEN 0 ELSE NationalEnd(text, tries[Min(good)])

extract_phone(text) ==
    LET starts == {i \in 1..Len(text) : PhoneEndAt(text, i) # 0}
    IN  IF starts = {} THEN None
        ELSE LET i == Min(starts)
             IN  Some(SubSeq(text, i, PhoneEndAt(text, i) - 1))

\* re.search(r'\b' + re.escape(skill) + r'\b', text_lower)
SkillFound(text_lower, skill) ==
    \E p \in 1..Len(text_lower) :
        /\ MatchAt(text_lower, p, skill)
        /\ WordBoundary(text_lower, p)
        /\ WordBoundary(text_lower, p + Len(skill))

\* str.title(): a letter after a non-letter in upper case, the others lower
RECURSIVE TitleFrom(_, _)
TitleFrom(s, k) ==
    IF k > Len(s) THEN ""
    ELSE LET c == CharAt(s, k)
             first == k = 1 \/ ~IsLetter(CharAt(s, k - 1))
         IN  (IF first THEN UpperChar(c) ELSE LowerChar(c)) \o TitleFrom(s, k + 1)
Title(s) == TitleFrom(s, 1)

\* the characters of the skill names in the order of their code points
CodeOrder == " #+-./" \o DigitChars \o UpperChars \o "_" \o LowerChars
CharCode(c) == CHOOSE i \in 1..Len(CodeOrder) : CharAt(CodeOrder, i) = c

\* a < b for strings, as Python compares them
RECURSIVE StrLess(_, _)
StrLess(a, b) ==
    IF b = "" THEN FALSE
    ELSE IF a = "" THEN TRUE
    ELSE IF CharAt(a, 1) # CharAt(b, 1) THEN CharCode(CharAt(a, 1)) < CharCode(CharAt(b, 1))
    ELSE StrLess(SubSeq(a, 2, Len(a)), SubSeq(b, 2, Len(b)))

\* sorted(list(set(found_skills)))
RECURSIVE SortedStrings(_)
SortedStrings(S) ==
    IF S = {} THEN <<>>
    ELSE LET least == CHOOSE x \in S : \A y \in S \ {x} : StrLess(x, y)
         IN  <<least>> \o SortedStrings(S \ {least})

extract_skills(self, text) ==
    LET text_lower == Lower(text)
        found_skills == {Title(self.tech_skills[k]) :
                            k \in {j \in DOMAIN self.tech_skills :
                                      SkillFound(text_lower, Lower(self.tech_skills[j]))}}
    IN  SortedStrings(found_skills)

\* the alternatives of the two degree patterns, in lower case, with the
\* positions of the characters that carry a `?`
Alt(chars, optional) == [chars |-> chars, optional |-> optional]
degree_patterns ==
    << << Alt("bachelor's", {9, 10}), Alt("b.s.", {2, 4}), Alt("b.a.", {2, 4}),
          Alt("master's", {7, 8}), Alt("m.s.", {2, 4}), Alt("m.a.", {2, 4}),
          Alt("ph.d.", {3, 5}), Alt("mba", {}) >>,
       << Alt("associate's", {10, 11}), Alt("a.s.", {2, 4}), Alt("a.a.", {2, 4}) >> >>

\* one alternative from its k-th character at position p of the text,
\* letters compared without case: the position after the match, 0 when none
RECURSIVE AltEnd(_, _, _, _)
AltEnd(text, p, alt, k) ==
    IF k > Len(alt.chars) THEN p
    ELSE LET taken == IF p <= Len(text) /\ LowerChar(CharAt(text, p)) = CharAt(alt.chars, k)
                      THEN AltEnd(text, p + 1, alt, k + 1) ELSE 0
         IN  IF taken # 0 THEN taken
             ELSE IF k \in alt.optional THEN AltEnd(text, p, alt, k + 1)
             ELSE 0

\* the first alternative of the pattern that matches at p
DegreeEndAt(text, p, pattern) ==
    LET good == {k \in DOMAIN pattern : AltEnd(text, p, pattern[k], 1) # 0}
    IN  IF good = {} THEN 0 ELSE AltEnd(text, p, pattern[Min(good)], 1)

\* re.finditer from position p: the entries of the matches, left to right
RECURSIVE DegreesFrom(_, _, _)
DegreesFrom(text, p, pattern) ==
    LET starts == {i \in p..Len(text) : DegreeEndAt(text, i, pattern) # 0}
    IN  IF starts = {} THEN <<>>
        ELSE LET i == Min(starts)
                 j == DegreeEndAt(text, i, pattern)
                 start == Max({1, i - 50})
                 end == Min({Len(text), j - 1 + 50})
             IN  << [degree |-> SubSeq(text, i, j - 1),
                     context |-> Strip(SubSeq(text, start, end))] >>
                 \o DegreesFrom(text, j, pattern)

extract_education(text) ==
    LET education == DegreesFrom(text, 1, degree_patterns[1])
                     \o DegreesFrom(text, 1, degree_patterns[2])
    IN  SubSeq(education, 1, Min({3, Len(education)}))

\* len(raw_text.split()): the runs of characters that are not whitespace
WordCount(text) ==
    Cardinality({p \in 1..Len(text) :
                    /\ ~IsSpace(CharAt(text, p))
                    /\ (p = 1 \/ IsSpace(CharAt(text, p - 1)))})

experience_keywords == <<"experience", "worked", "developed", "managed", "led", "designed">>

\* the points of the skills section
SkillsPointsFlat(count) ==
    IF count >= 8 THEN 40 ELSE IF count >= 5 THEN 20 ELSE IF count >= 3 THEN 10 ELSE 0

SkillsPoints(count) ==
    IF count >= 8 THEN 30 ELSE IF count >= 5 THEN 20 ELSE IF count >= 3 THEN 10 ELSE 0

calculate_ats_score(parsed_data) ==
    LET contact == (IF parsed_data.email # None THEN 10 ELSE 0)
                   + (IF parsed_data.phone # None THEN 10 ELSE 0)
        skills == SkillsPoints(Len(parsed_data.skills))
        education == IF Len(parsed_data.education) > 0 THEN 20 ELSE 0
        text_lower == Lower(parsed_data.raw_text)
        found_keywords == Cardinality({k \in DOMAIN experience_keywords :
                                          Contains(experience_keywords[k], text_lower)})
        experience == IF found_keywords >= 4 THEN 30
                      ELSE IF found_keywords >= 2 THEN 20
                      ELSE IF found_keywords >= 1 THEN 10
                      ELSE 0
        score == contact + skills + education + experience
    IN  Min({score, 100})

SuggestEmail == "Add a professional email address in the contact section"
SuggestPhone == "Include a phone number for contact purposes"
SuggestSkills(skills_count) ==
    "Add more relevant skills (currently " \o ToString(skills_count) \o ", aim for 8-12)"
SuggestEducation == "Include your education background"
SuggestExperience == "Add work experience with action verbs (developed, led, managed)"
SuggestAchievements == "Good score! Consider adding more quantifiable achievements"
SuggestKeywords == "Use industry-specific keywords from job descriptions"
SuggestNothing == "Excellent ATS score! Your resume is well-optimized"

\* the band of the two 'good score' suggestions
IsGoodScoreAbove(ats_score) == ats_score > 70 /\ ats_score < 85

IsGoodScore(ats_score) == ats_score >= 70 /\ ats_score < 85

generate_suggestions(parsed_data, ats_score) ==
    LET skills_count == Len(parsed_data.skills)
        text == Lower(parsed_data.raw_text)
        missing ==
            (IF parsed_data.email = None THEN <<SuggestEmail>> ELSE <<>>)
            \o (IF parsed_data.phone = None THEN <<SuggestPhone>> ELSE <<>>)
            \o (IF skills_count < 5 THEN <<SuggestSkills(skills_count)>> ELSE <<>>)
            \o (IF Len(parsed_data.education) = 0 THEN <<SuggestEducation>> ELSE <<>>)
            \o (IF ~Contains("experience", text) /\ ~Contains("worked", text)
                THEN <<SuggestExperience>> ELSE <<>>)
    IN  (IF ats_score < 70 THEN missing ELSE <<>>)
        \o (IF IsGoodScore(ats_score) THEN <<SuggestAchievements, SuggestKeywords>> ELSE <<>>)
        \o (IF ats_score >= 85 THEN <<SuggestNothing>> ELSE <<>>)

\* parse_resume from the score on: the suggestions and the returned dict
Suggested(parsed_data, ats_score) ==
    [parsed_data |-> parsed_data,
     ats_score |-> ats_score,
     suggestions |-> generate_suggestions(parsed_data, ats_score),
     status |-> "success"]

\* parse_resume from the structured data on
Scored(parsed_data) == Suggested(parsed_data, calculate_ats_score(parsed_data))

\* parse_resume from the extracted text on
Extracted(self, raw_text) ==
    Scored([raw_text |-> raw_text,
            email |-> extract_email(raw_text),
            phone |-> extract_phone(raw_text),
            skills |-> extract_skills(self, raw_text),
            education |-> extract_education(raw_text),
            word_count |-> WordCount(raw_text)])

\* parse_resume, the file given as the texts of its pages
parse_resume(self, pages) == Extracted(self, extract_text_from_pdf(pages))


(***************************************************************************)
(* The database behind the routes: for each of the two tables the ids of   *)
(* its rows, in the order the rows were created.                           *)
(***************************************************************************)
NewDatabase == [job_analyses |-> <<>>, resumes |-> <<>>]

Ids(rows) == {rows[k] : k \in DOMAIN rows}

\* db.delete(row): the table without the row of this id
RECURSIVE Without(_, _)
Without(rows, id) ==
    IF rows = <<>> THEN <<>>
    ELSE IF Head(rows) = id THEN Tail(rows)
    ELSE <<Head(rows)>> \o Without(Tail(rows), id)

\* order_by(created_at.desc()).limit(limit).offset(offset).all()
RECURSIVE Reversed(_)
Reversed(rows) == IF rows = <<>> THEN <<>> ELSE Reversed(Tail(rows)) \o <<Head(rows)>>
Page(rows, limit, offset) ==
    SubSeq(Reversed(rows), offset + 1, Min({Len(rows), offset + limit}))


(***************************************************************************)
(* The routes of the application, in the order they are registered: each   *)
(* router in the order of its decorators, the routers in the order of      *)
(* include_router. A request goes to the first route whose path pattern    *)
(* and method both match it.                                               *)
(***************************************************************************)
Route(method, path, endpoint) == [method |-> method, path |-> path, endpoint |-> endpoint]

resumes_router ==
    << Route("POST", "/upload", "upload_resume"),
       Route("GET", "/{resume_id}", "get_resume"),
       Route("GET", "/", "list_resumes"),
       Route("DELETE", "/{resume_id}", "delete_resume"),
       Route("GET", "/test", "test_endpoint") >>

jobs_router ==
    << Route("POST", "/analyze", "analyze_job"),
       Route("GET", "/{analysis_id}", "get_job_analysis"),
       Route("GET", "/", "list_job_analyses"),
       Route("GET", "/test", "test_jobs_endpoint") >>

cover_letters_router ==
    << Route("POST", "/generate", "generate_cover_letter"),
       Route("POST", "/generate-simple", "generate_cover_letter_simple"),
       Route("GET", "/test", "test_cover_letter_endpoint") >>

matching_router ==
    << Route("POST", "/match", "match_resume_to_job"),
       Route("POST", "/match-multiple", "match_resume_to_multiple_jobs"),
       Route("POST", "/match-by-id", "match_by_resume_id"),
       Route("GET", "/test", "test_matching_endpoint") >>

ResumesPrefix == "/api/v1/resumes"
JobsPrefix == "/api/v1/jobs"
CoverLettersPrefix == "/api/v1/cover-letters"
MatchingPrefix == "/api/v1/matching"

\* app.include_router(router, prefix=prefix)
include_router(router, prefix) ==
    [k \in DOMAIN router |-> [router[k] EXCEPT !.path = prefix \o @]]

app_routes ==
    include_router(resumes_router, ResumesPrefix)
    \o include_router(jobs_router, JobsPrefix)
    \o include_router(cover_letters_router, CoverLettersPrefix)
    \o include_router(matching_router, MatchingPrefix)
    \o << Route("GET", "/", "root"), Route("GET", "/health", "health_check") >>

\* whether the path fits the pattern of a route: a pattern without a
\* parameter fits the equal path, a pattern that ends in {name} fits the
\* paths that go on, where the parameter stands, with one segment that is
\* not empty and holds no slash
PathMatches(pattern, path) ==
    LET braces == {k \in 1..Len(pattern) : CharAt(pattern, k) = "{"}
    IN  IF braces = {} THEN path = pattern
        ELSE LET b == Min(braces)
             IN  /\ Len(path) >= b
                 /\ SubSeq(path, 1, b - 1) = SubSeq(pattern, 1, b - 1)
                 /\ \A k \in b..Len(path) : CharAt(path, k) # "/"

\* the value of the path parameter
PathParam(pattern, path) ==
    SubSeq(path, Min({k \in 1..Len(pattern) : CharAt(pattern, k) = "{"}), Len(path))

\* the route that handles the request: the first registered one that
\* matches path and method, None when no route does
Dispatch(routes, method, path) ==
    LET full == {k \in DOMAIN routes :
                    PathMatches(routes[k].path, path) /\ routes[k].method = method}
    IN  IF full = {} THEN None ELSE Some(routes[Min(full)])

\* the status when no route handles the request: 405 when a route fits the
\* path but not the method, else 404
Unrouted(routes, path) ==
    IF \E k \in DOMAIN routes : PathMatches(routes[k].path, path) THEN 405 ELSE 404


(***************************************************************************)
(* The program as a state machine: one shared HiringDetector (the          *)
(* module-level `detector` of src/app/api/jobs.py) serving calls of        *)
(* analyze_hiring_type one after the other.                                *)
(***************************************************************************)
VARIABLES
    detector,          \* self: the detector's three tables
    pc,                \* "idle" | "called" | "done"
    job_description,   \* the call's first argument
    posted_date,       \* the call's second argument: None or Some(string)
    now,               \* what datetime.now() returns during the call
    outcome,           \* None, or what the call left: Returned(..) / Raised(..)
    earlier,           \* None, or Some(a completed call kept for comparison)
    calls,             \* the frames of the requests served concurrently
    matcher,           \* the module-level SemanticMatcher: its embedding cache
    matched,           \* None, or Some(the last matcher call and its result)
    parsed,            \* None, or Some(the last parse_resume result)
    db,                \* the ids of the rows stored, per table
    served             \* None, or Some(the last HTTP request and its response)

\* the variables of the hiring detector and those of the other services
hiring == <<detector, pc, job_description, posted_date, now, outcome, earlier, calls>>
others == <<matcher, matched, parsed, db, served>>
vars == <<hiring, others>>

\* the longest job description, in fragments
MaxFrags == 2
\* how many days the clock ranges over
MaxClockDays == 2
\* how many requests are served at the same time
MaxClients == 2

\* job descriptions: up to n fragments of a lexicon, one after the other
RECURSIVE TextsOf(_, _)
TextsOf(lexicon, n) ==
    IF n = 0 THEN {""}
    ELSE LET shorter == TextsOf(lexicon, n - 1)
         IN  shorter \cup {t \o f : t \in shorter, f \in lexicon}

Clock(y, m, d, secs) == [ordinal |-> ToOrdinal(y, m, d), secs |-> secs]

\* inputs of the scoring specification
Fragments ==
    {"asap ",
     "urgent hiring, start date: now, apply now ",
     "future openings ",
     "talent pool, always hiring ",
     "nationwide ",
     "pay tbd ",
     "reports to Ann, salary range ",
     "Req: REQ-2024-ML-1847 ",
     "Job ID: A1\n"}
PostedDates ==
    {None, Some(""), Some("2024-02-15"), Some("2024-02-14"), Some("not a date")}
Nows == {Clock(2024, 3, 31, 0)}

\* inputs of the requisition specification
ReqFragments ==
    {"Req: REQ-2024-ML-1847 ",
     "Job ID: A1\n",
     "ref# POOL ",
     "Req# EVERGREEN_ENG_2024 ",
     "Requisition: EVERGREEN_ENG_2024\n",
     "reference number: X9-2 ",
     "Ref: 12345 ",
     "see job description ",
     "job id ",
     "apply: "}

\* inputs of the posting-age specification
DateTexts == {"", "asap ", "talent pool, always hiring "}
DateStrings ==
    {None, Some(""), Some("2024-02-15"), Some("2024-02-14"), Some("2024-02-13"),
     Some("2024-02-14T00:00:01"), Some("2024-02-15T23:59:59Z"),
     Some("2024-02-14T12:00:00+05:00"), Some("2024-04-02"), Some("2023-06-01"),
     Some("not a date"), Some("2024-02-30"), Some("2024-13-01"), Some("15/02/2024"),
     Some("Z")}
DateNows ==
    {[ordinal |-> ToOrdinal(2024, 3, 30) + k, secs |-> s] :
        k \in 0..MaxClockDays, s \in {0, 1, 86399}}

\* inputs of the repeated-call specification
RepeatTexts == {"", "asap ", "Job ID: A1\ntalent pool, always hiring nationwide "}
RepeatDates == {None, Some("2024-02-14"), Some("not a date")}
RepeatNows == {Clock(2024, 3, 31, 0), Clock(2024, 4, 1, 0)}

\* inputs of the location specification
LocFragments ==
    {"Austin, Boston, Denver ",
     "Dallas Miami ",
     "Seattle ",
     "New York, New Orleans ",
     "Tampa-Tulsa\n",
     "austin boston ",
     "Austinite Mesa1 ",
     "nationwide ",
     "Multiple Locations ",
     "remote "}

\* inputs of the specificity specification
DetailFragments ==
    {"reports to Ann ",
     "Reporting to ",
     "reporting directly to Sarah ",
     "engineering and sales ",
     "Data ",
     "product design finance ",
     "our tech stack ",
     "project ",
     "$140,000 ",
     "$ tbd ",
     "pay range ",
     "10k-20k ",
     "tools we use; reports to Ann in engineering and sales, $90,000 "}

\* inputs of the keyword-count specification
CountFragments ==
    {"ASAP ",
     "asap asap ",
     "Future Openings ",
     "Talent Pool, always hiring ",
     "NATIONWIDE ",
     "Email resume to jobs@x.io ",
     "open application for an open position ",
     "vacancy: opening ",
     "pay tbd ",
     "hello "}

\* inputs of the insights specification
InsightFragments ==
    {"asap ",
     "talent pool ",
     "urgent hiring, start date: now, apply now ",
     "start date, apply now ",
     "vacancy: opening ",
     "talent pool, always hiring ",
     "various positions, keep you in mind ",
     "pay tbd nationwide ",
     "Job ID: A1\n",
     "reports to Ann, salary range ",
     "asap, talent pool and future openings, pay tbd, nationwide. Job ID: A1\n"}
InsightDates == {None, Some("2024-02-14")}

\* inputs of the paired-calls specification
PairTexts ==
    {"",
     "asap ",
     "Req: REQ-2024-ML-1847 ",
     "Req: REQ-2024-ML-1847 asap reports to Ann, salary range ",
     "Req: REQ-2024-ML-1847 urgent hiring, start date: now, apply now ",
     "talent pool, always hiring nationwide "}
PairDates == {None, Some("2024-02-14")}

\* inputs of the scenario A specification: the job description of test 1
\* of the source, and descriptions made of the scenario's phrases after a
\* requisition line, followed by further fragments
active_job ==
    "\n    Software Engineer - Machine Learning Team\n"
    \o "    Requisition ID: REQ-2024-ML-1847\n    \n"
    \o "    We have an immediate opening for a ML Engineer to join our "
    \o "Data Science team,\n    reporting directly to Sarah Chen, VP of AI. \n"
    \o "    \n    Start date: March 15, 2024\n"
    \o "    Salary range: $140,000 - $180,000\n    \n"
    \o "    You'll be working on our recommendation engine project using "
    \o "PyTorch and TensorFlow.\n"
    \o "    Our team of 8 engineers is based in San Francisco.\n    \n"
    \o "    Apply now - interviews happening this week!\n    "
ARequisitions == {"Req: REQ-2024-ML-1847\n", "Requisition ID: REQ-2024-ML-1847\n"}
APhrases ==
    "We have an immediate opening, reporting directly to Sarah Chen. "
    \o "$140,000 - $180,000. "
AFragments ==
    {"Apply now! ",
     "Start date: March 15. ",
     "You'll be working on our engine project. ",
     "Join our talent pool, we are always hiring. ",
     "Offices nationwide. "}
ATexts ==
    {active_job}
    \cup {r \o APhrases \o t :
             r \in ARequisitions, t \in TextsOf(AFragments, MaxFrags)}
ADates == {Some("2024-02-15")}
ANows == {Clock(2024, 3, 1, 0)}

\* inputs of the scenario B specification: the job description of test 2
\* of the source, and descriptions made of the scenario's phrases after a
\* requisition line, followed by further fragments
pipeline_job ==
    "\n    Senior Software Engineers - Future Opportunities\n"
    \o "    Requisition: EVERGREEN_ENG_2024\n    \n"
    \o "    Join our talent pool! We're always looking for talented engineers\n"
    \o "    across multiple locations nationwide.\n    \n"
    \o "    Submit your resume for future consideration. We'll keep you in mind\n"
    \o "    for various positions as they become available.\n    \n"
    \o "    Locations: New York, Los Angeles, Chicago, Houston, Phoenix, "
    \o "San Francisco, \n"
    \o "    Seattle, Denver, Austin, Dallas, Miami, Boston, Atlanta\n    \n"
    \o "    Email your resume to: careers@company.com\n"
    \o "    Competitive salary commensurate with experience.\n    "
BRequisitions == {"Req# EVERGREEN_ENG_2024\n", "Requisition: EVERGREEN_ENG_2024\n"}
BPhrases ==
    "Join our talent pool for various positions. "
    \o "Locations: New York, Los Angeles, Chicago, Houston, Phoenix, Seattle, "
    \o "Denver, Austin, Dallas, Miami. "
    \o "Email your resume to us. "
BFragments ==
    {"urgent hiring, start date: now, apply now ",
     "asap, backfill, onboarding ",
     "reports to Ann, salary range ",
     "Competitive salary. ",
     "Future opportunities. "}
BTexts ==
    {pipeline_job}
    \cup {r \o BPhrases \o t :
             r \in BRequisitions, t \in TextsOf(BFragments, MaxFrags)}
BDates == {Some("2023-06-01")}
BNows == {Clock(2024, 1, 27, 0)}

\* inputs of the concurrent specification
Clients == 1..MaxClients
ConcTexts == {"asap ", "talent pool, always hiring nationwide "}
ConcDates == {None, Some("2024-02-14")}
ConcNows == {Clock(2024, 3, 31, 0)}

\* the frame of a request that is not inside analyze_hiring_type
IdleFrame ==
    [pc |-> "idle", job_description |-> "", posted_date |-> None, now |-> None,
     counts |-> None, structure |-> None, age |-> None, outcome |-> None]

Init ==
    /\ detector = NewDetector
    /\ pc = "idle"
    /\ job_description = ""
    /\ posted_date = None
    /\ now = Clock(2024, 3, 31, 0)
    /\ outcome = None
    /\ earlier = None
    /\ calls = [c \in Clients |-> IdleFrame]
    /\ matcher = NewMatcher
    /\ matched = None
    /\ parsed = None
    /\ db = NewDatabase
    /\ served = None

\* a client calls detector.analyze_hiring_type(text, date)
Call(texts, dates, nows) ==
    /\ pc = "idle"
    /\ job_description' \in texts
    /\ posted_date' \in dates
    /\ now' \in nows
    /\ outcome' = None
    /\ pc' = "called"
    /\ UNCHANGED <<detector, earlier, calls, others>>

\* variant: the call empties the urgency keyword list it has scanned
SelfAfterCallConsumed(self) ==
    [self EXCEPT !.active_indicators =
        [urgency |-> <<>>, specificity |-> @.specificity,
         timeline |-> @.timeline, vacancy |-> @.vacancy]]

\* what the call does to self: analyze_hiring_type and the helpers it calls
\* read self.active_indicators, self.passive_indicators and self.red_flags
\* and assign to none of them
SelfAfterCall(self) == self

\* the body of analyze_hiring_type runs
Analyze ==
    /\ pc = "called"
    /\ outcome' = analyze_hiring_type(detector, job_description, posted_date, now)
    /\ detector' = SelfAfterCall(detector)
    /\ pc' = "done"
    /\ UNCHANGED <<job_description, posted_date, now, earlier, calls, others>>

ThisCall ==
    [job_description |-> job_description, posted_date |-> posted_date,
     now |-> now, outcome |-> outcome]

\* the client takes the result; the call's frame is gone
Finish ==
    /\ pc = "done"
    /\ pc' = "idle"
    /\ job_description' = ""
    /\ posted_date' = None
    /\ outcome' = None
    /\ UNCHANGED <<detector, now, earlier, calls, others>>

\* the client takes the result and keeps it to compare with a later call's
Remember ==
    /\ pc = "done"
    /\ earlier' = Some(ThisCall)
    /\ pc' = "idle"
    /\ job_description' = ""
    /\ posted_date' = None
    /\ outcome' = None
    /\ UNCHANGED <<detector, now, calls, others>>

Next ==
    \/ Call(TextsOf(Fragments, MaxFrags), PostedDates, Nows)
    \/ Analyze
    \/ Finish

Spec == Init /\ [][Next]_vars

NextReq ==
    \/ Call(TextsOf(ReqFragments, MaxFrags), {None}, Nows)
    \/ Analyze
    \/ Finish

SpecReq == Init /\ [][NextReq]_vars

NextDates ==
    \/ Call(DateTexts, DateStrings, DateNows)
    \/ Analyze
    \/ Finish

SpecDates == Init /\ [][NextDates]_vars

NextRepeat ==
    \/ Call(RepeatTexts, RepeatDates, RepeatNows)
    \/ Analyze
    \/ Finish
    \/ Remember

SpecRepeat == Init /\ [][NextRepeat]_vars

NextLoc ==
    \/ Call(TextsOf(LocFragments, MaxFrags), {None}, Nows)
    \/ Analyze
    \/ Finish

SpecLoc == Init /\ [][NextLoc]_vars

NextDetail ==
    \/ Call(TextsOf(DetailFragments, MaxFrags), {None}, Nows)
    \/ Analyze
    \/ Finish

SpecDetail == Init /\ [][NextDetail]_vars

NextCount ==
    \/ Call(TextsOf(CountFragments, MaxFrags), {None}, Nows)
    \/ Analyze
    \/ Finish

SpecCount == Init /\ [][NextCount]_vars

NextInsight ==
    \/ Call(TextsOf(InsightFragments, MaxFrags), InsightDates, Nows)
    \/ Analyze
    \/ Finish

SpecInsight == Init /\ [][NextInsight]_vars

NextPairs ==
    \/ Call(PairTexts, PairDates, Nows)
    \/ Analyze
    \/ Finish
    \/ Remember

SpecPairs == Init /\ [][NextPairs]_vars

NextA ==
    \/ Call(ATexts, ADates, ANows)
    \/ Analyze
    \/ Finish

SpecA == Init /\ [][NextA]_vars

NextB ==
    \/ Call(BTexts, BDates, BNows)
    \/ Analyze
    \/ Finish

SpecB == Init /\ [][NextB]_vars

(***************************************************************************)
(* Concurrent requests: every request has a frame of its own (arguments    *)
(* and locals of analyze_hiring_type); the frames share the one detector.  *)
(* A request advances one stage of analyze_hiring_type at a time, and the  *)
(* stages of different requests interleave in any order.                   *)
(***************************************************************************)
sequential == <<pc, job_description, posted_date, now, outcome, earlier>>

\* request c enters analyze_hiring_type
Enter(c) ==
    /\ calls[c].pc = "idle"
    /\ \E text \in ConcTexts, date \in ConcDates :
          calls' = [calls EXCEPT ![c] =
                      [IdleFrame EXCEPT !.pc = "entered",
                                        !.job_description = text,
                                        !.posted_date = date]]
    /\ UNCHANGED <<detector, sequential, others>>

\* stage 1: the three count_indicators scans and their sums
CountStage(c) ==
    /\ calls[c].pc = "entered"
    /\ LET text == calls[c].job_description
           active_matches == count_indicators(text, detector.active_indicators)
           passive_matches == count_indicators(text, detector.passive_indicators)
           red_flag_matches == count_indicators(text, detector.red_flags)
       IN  calls' = [calls EXCEPT ![c].pc = "counted", ![c].counts =
                 [active_matches |-> active_matches,
                  passive_matches |-> passive_matches,
                  red_flag_matches |-> red_flag_matches,
                  active_score |-> SumValues(active_matches, ActiveOrder),
                  passive_score |-> SumValues(passive_matches, PassiveOrder),
                  red_flag_score |-> SumValues(red_flag_matches, RedFlagOrder)]]
    /\ detector' = SelfAfterCall(detector)
    /\ UNCHANGED <<sequential, others>>

\* stage 2: requisition, location and specificity analyses
StructureStage(c) ==
    /\ calls[c].pc = "counted"
    /\ LET text == calls[c].job_description
       IN  calls' = [calls EXCEPT ![c].pc = "structured", ![c].structure =
                 [req_id_analysis |->
                      analyze_req_id(extract_requisition_id(text)),
                  location_analysis |-> detect_location_blast(detector, text),
                  specificity_analysis |-> analyze_specificity(text)]]
    /\ detector' = SelfAfterCall(detector)
    /\ UNCHANGED <<sequential, others>>

\* stage 3: the posting age, against the clock as it reads now
AgeStage(c) ==
    /\ calls[c].pc = "structured"
    /\ \E clock \in ConcNows :
          calls' = [calls EXCEPT ![c].pc = "aged", ![c].now = clock,
                                 ![c].age = PostingAge(calls[c].posted_date, clock)]
    /\ UNCHANGED <<detector, sequential, others>>

\* stages 4 to 7 work on the locals of the frame only
Conclude(frame) ==
    LET c == frame.counts
        s == frame.structure
        age == frame.age
        final_active_score ==
            FinalActive(c.active_score, s.specificity_analysis, s.req_id_analysis)
        final_passive_score ==
            FinalPassive(c.passive_score, c.red_flag_score, s.req_id_analysis,
                         s.location_analysis, age.is_stale)
        verdict == DetermineHiringType(final_active_score, final_passive_score)
    IN  IF age.error # None THEN Raised(age.error)
        ELSE Returned(
           [hiring_type |-> verdict.hiring_type,
            confidence |-> verdict.confidence,
            explanation |-> verdict.explanation,
            active_score |-> final_active_score,
            passive_score |-> final_passive_score,
            red_flag_score |-> c.red_flag_score,
            active_indicators |-> c.active_matches,
            passive_indicators |-> c.passive_matches,
            red_flags |-> c.red_flag_matches,
            requisition_analysis |-> s.req_id_analysis,
            location_analysis |-> s.location_analysis,
            specificity_analysis |-> s.specificity_analysis,
            posting_age_days |-> age.posting_age_days,
            is_stale |-> age.is_stale,
            insights |-> Insights(
                [active_score |-> c.active_score,
                 active_matches |-> c.active_matches,
                 passive_score |-> c.passive_score,
                 passive_matches |-> c.passive_matches,
                 red_flag_score |-> c.red_flag_score,
                 req_id_analysis |-> s.req_id_analysis,
                 location_analysis |-> s.location_analysis,
                 specificity_analysis |-> s.specificity_analysis,
                 posting_age_days |-> age.posting_age_days,
                 is_stale |-> age.is_stale]),
            application_strategy |-> Strategy(verdict.hiring_type)])

ReturnStage(c) ==
    /\ calls[c].pc = "aged"
    /\ calls' = [calls EXCEPT ![c].pc = "done", ![c].outcome = Conclude(calls[c])]
    /\ UNCHANGED <<detector, sequential, others>>

\* the route handler takes the result of request c
Leave(c) ==
    /\ calls[c].pc = "done"
    /\ calls' = [calls EXCEPT ![c] = IdleFrame]
    /\ UNCHANGED <<detector, sequential, others>>

NextConc ==
    \E c \in Clients :
        \/ Enter(c)
        \/ CountStage(c)
        \/ StructureStage(c)
        \/ AgeStage(c)
        \/ ReturnStage(c)
        \/ Leave(c)

SpecConc == Init /\ [][NextConc]_vars

\* what request c would get from a detector nobody else is using
Alone(frame) ==
    analyze_hiring_type(NewDetector, frame.job_description, frame.posted_date,
                        frame.now)

(***************************************************************************)
(* The matching routes: one shared SemanticMatcher (the module-level       *)
(* `matcher` of src/app/api/matching.py) serving POST /match and           *)
(* POST /match-multiple requests one after the other.                      *)
(***************************************************************************)
\* the longest list of jobs in a request
MaxJobs == 2
MaxPages == 2
MaxRows == 2
DefaultLimit == 10

\* inputs of the matcher specification
ResumeTexts == {"python data scientist", "data scientist, python and sql"}
ResumeIds == {None, Some("r1")}
Postings ==
    {[id |-> Some("j1"), title |-> "Senior Data Scientist", company |-> "Acme",
      description |-> "senior data scientist, python"],
     [id |-> Some("j1"), title |-> "Marketing Manager", company |-> "Acme",
      description |-> "marketing manager"],
     [id |-> None, title |-> "ML Engineer", company |-> "Initech",
      description |-> "machine learning engineer"],
     [id |-> None, title |-> "Backend Developer", company |-> "Initech",
      description |-> "backend developer"],
     [id |-> None, title |-> "Data Analyst", company |-> "Globex",
      description |-> "data analyst"],
     [id |-> None, title |-> "Business Analyst", company |-> "Globex",
      description |-> "business analyst"]}

\* lists of up to n different postings
RECURSIVE JobLists(_)
JobLists(n) ==
    IF n = 0 THEN {<<>>}
    ELSE LET shorter == JobLists(n - 1)
             longer == {Append(l, p) : l \in shorter, p \in Postings}
         IN  shorter \cup {m \in longer :
                              \A i, j \in DOMAIN m : i # j => m[i] # m[j]}

\* POST /match: matcher.match_resume_to_job(...)
MatchJob ==
    /\ matched = None
    /\ \E resume_text \in ResumeTexts, resume_id \in ResumeIds, job \in Postings :
        LET call == match_resume_to_job(matcher, resume_text, job.description,
                                        resume_id, job.id)
        IN  /\ matcher' = call.self
            /\ matched' = Some([op |-> "match", resume_text |-> resume_text,
                                resume_id |-> resume_id, jobs |-> <<job>>,
                                value |-> call.value])
            /\ UNCHANGED <<hiring, parsed, db, served>>

\* POST /match-multiple: matcher.match_resume_to_multiple_jobs(...)
MatchMultiple ==
    /\ matched = None
    /\ \E resume_text \in ResumeTexts, resume_id \in ResumeIds, jobs \in JobLists(MaxJobs) :
        LET call == match_resume_to_multiple_jobs(matcher, resume_text, jobs, resume_id)
        IN  /\ matcher' = call.self
            /\ matched' = Some([op |-> "match-multiple", resume_text |-> resume_text,
                                resume_id |-> resume_id, jobs |-> jobs,
                                value |-> call.value])
            /\ UNCHANGED <<hiring, parsed, db, served>>

\* the route returns the match to the client
Reply ==
    /\ matched # None
    /\ matched' = None
    /\ UNCHANGED <<hiring, matcher, parsed, db, served>>

NextMatch ==
    \/ MatchJob
    \/ MatchMultiple
    \/ Reply

SpecMatch == Init /\ [][NextMatch]_vars

\* the last matcher call; the scored entries it returned
Matched == matched[1]
MatchEntries == IF Matched.op = "match" THEN <<Matched.value>> ELSE Matched.value

\* the uploaded files: the texts of the pages of a PDF
PageTexts ==
    {"Jane Doe\njane.doe@example.com\n(555) 123-4567",
     "Skills: Python, SQL, Docker; I worked on reports",
     "Java, React, Git, Redis, AWS. B.S. Physics. Led and managed projects",
     "Experience: developed and designed APIs. Contact: a@b.co, +1 555 123 4567",
     "John Roe, MBA john@roe.dev 555-123-4567\nPython Java SQL React Django Docker Git AWS\nExperience: developed, managed, led"}

RECURSIVE PageLists(_)
PageLists(n) ==
    IF n = 0 THEN {<<>>}
    ELSE LET shorter == PageLists(n - 1)
         IN  shorter \cup {Append(l, p) : l \in shorter, p \in PageTexts}

Pdf(filename, pages) == [filename |-> filename, pages |-> pages]

\* a PDF of up to n pages, a file that is no PDF, a PDF that cannot be read
Uploads(n) ==
    {Pdf("resume.pdf", Some(l)) : l \in PageLists(n)}
        \cup {Pdf("resume.docx", Some(<<>>)), Pdf("scan.pdf", None)}

\* the files and the postings sent to the routes specification
FewUploads ==
    {Pdf("resume.pdf", Some(<<"I worked on reports">>)),
     Pdf("resume.docx", Some(<<>>)),
     Pdf("scan.pdf", None)}
FewPostings == {"asap ", "talent pool, always hiring "}

\* str(uuid.uuid4()), from a pool as large as a table may grow
Uuid(k) == "uuid-" \o ToString(k)
Uuids == {Uuid(k) : k \in 1..MaxRows}
FreshIds(rows) == Uuids \ Ids(rows)

EndsWith(s, suffix) ==
    Len(s) >= Len(suffix) /\ SubSeq(s, Len(s) - Len(suffix) + 1, Len(s)) = suffix

\* the requests sent
Methods == {"GET", "POST", "DELETE"}
RequestPaths ==
    {prefix \o tail :
        prefix \in {ResumesPrefix, JobsPrefix, CoverLettersPrefix, MatchingPrefix},
        tail \in {"/", "/test", "/upload", "/analyze", "/a/b"} \cup {"/" \o id : id \in Uuids}}
        \cup {"/", "/health"}
Unmodelled ==
    {"generate_cover_letter", "generate_cover_letter_simple",
     "match_resume_to_job", "match_resume_to_multiple_jobs", "match_by_resume_id"}
Requests ==
    {req \in [method : Methods, path : RequestPaths] :
        LET route == Dispatch(app_routes, req.method, req.path)
        IN  route = None \/ route[1].endpoint \notin Unmodelled}

\* the route of the request is this endpoint's
Handles(req, endpoint) ==
    LET route == Dispatch(app_routes, req.method, req.path)
    IN  route # None /\ route[1].endpoint = endpoint
RouteOf(req) == Dispatch(app_routes, req.method, req.path)[1]

Response(req, endpoint, status_code, body) ==
    [method |-> req.method, path |-> req.path, endpoint |-> endpoint,
     status_code |-> status_code, body |-> body]

\* upload_resume from the parse result on: the row and the response
save_resume(req, file, result) ==
    \E file_id \in FreshIds(db.resumes) :
        /\ parsed' = Some(result)
        /\ db' = [db EXCEPT !.resumes = Append(@, file_id)]
        /\ served' = Some(Response(req, "upload_resume", 200,
                          [resume_id |-> file_id,
                           original_filename |-> file.filename,
                           parsed_data |-> result.parsed_data,
                           ats_score |-> result.ats_score,
                           suggestions |-> result.suggestions]))

\* POST /api/v1/resumes/upload
upload_resume(files) ==
    /\ served = None
    /\ \E req \in Requests, file \in files :
         /\ Handles(req, "upload_resume")
         /\ IF ~EndsWith(file.filename, ".pdf")
            THEN /\ served' = Some(Response(req, "upload_resume", 400,
                                   [detail |-> "Only PDF files are supported"]))
                 /\ UNCHANGED <<parsed, db>>
            ELSE IF file.pages = None
            THEN /\ served' = Some(Response(req, "upload_resume", 500,
                                   [detail |-> "Error processing resume: Error reading PDF"]))
                 /\ UNCHANGED <<parsed, db>>
            ELSE /\ Len(db.resumes) < MaxRows
                 /\ save_resume(req, file, parse_resume(NewParser, file.pages[1]))
    /\ UNCHANGED <<hiring, matcher, matched>>

\* GET /api/v1/resumes/{resume_id}
get_resume ==
    /\ served = None
    /\ \E req \in Requests :
         /\ Handles(req, "get_resume")
         /\ LET resume_id == PathParam(RouteOf(req).path, req.path)
            IN  served' = IF resume_id \in Ids(db.resumes)
                          THEN Some(Response(req, "get_resume", 200, [resume |-> resume_id]))
                          ELSE Some(Response(req, "get_resume", 404,
                                             [detail |-> "Resume not found"]))
    /\ UNCHANGED <<hiring, matcher, matched, parsed, db>>

\* GET /api/v1/resumes/
list_resumes ==
    /\ served = None
    /\ \E req \in Requests :
         /\ Handles(req, "list_resumes")
         /\ served' = Some(Response(req, "list_resumes", 200,
                           [total |-> Len(db.resumes), limit |-> DefaultLimit, offset |-> 0,
                            resumes |-> Page(db.resumes, DefaultLimit, 0)]))
    /\ UNCHANGED <<hiring, matcher, matched, parsed, db>>

\* DELETE /api/v1/resumes/{resume_id}
delete_resume ==
    /\ served = None
    /\ \E req \in Requests :
         /\ Handles(req, "delete_resume")
         /\ LET resume_id == PathParam(RouteOf(req).path, req.path)
            IN  IF resume_id \in Ids(db.resumes)
                THEN /\ db' = [db EXCEPT !.resumes = Without(@, resume_id)]
                     /\ served' = Some(Response(req, "delete_resume", 200,
                                       [message |-> "Resume " \o resume_id \o " deleted"]))
                ELSE /\ served' = Some(Response(req, "delete_resume", 404,
                                       [detail |-> "Resume not found"]))
                     /\ UNCHANGED db
    /\ UNCHANGED <<hiring, matcher, matched, parsed>>

\* analyze_job from the analysis on: the row and the response
save_job_analysis(req, analysis) ==
    IF analysis.raised # None
    THEN /\ served' = Some(Response(req, "analyze_job", 500,
                           [detail |-> "Error analyzing job posting: " \o analysis.raised[1]]))
         /\ UNCHANGED db
    ELSE /\ Len(db.job_analyses) < MaxRows
         /\ \E id \in FreshIds(db.job_analyses) :
              /\ db' = [db EXCEPT !.job_analyses = Append(@, id)]
              /\ served' = Some(Response(req, "analyze_job", 200,
                                [analysis_id |-> id, analysis |-> analysis.value]))

\* POST /api/v1/jobs/analyze
analyze_job(texts, dates, nows) ==
    /\ served = None
    /\ pc = "idle"
    /\ \E req \in Requests, text \in texts, date \in dates, clock \in nows :
         /\ Handles(req, "analyze_job")
         /\ save_job_analysis(req, analyze_hiring_type(detector, text, date, clock))
    /\ detector' = SelfAfterCall(detector)
    /\ UNCHANGED <<pc, job_description, posted_date, now, outcome, earlier, calls>>
    /\ UNCHANGED <<matcher, matched, parsed>>

\* GET /api/v1/jobs/{analysis_id}
get_job_analysis ==
    /\ served = None
    /\ \E req \in Requests :
         /\ Handles(req, "get_job_analysis")
         /\ LET analysis_id == PathParam(RouteOf(req).path, req.path)
            IN  served' = IF analysis_id \in Ids(db.job_analyses)
                          THEN Some(Response(req, "get_job_analysis", 200,
                                             [analysis |-> analysis_id]))
                          ELSE Some(Response(req, "get_job_analysis", 404,
                                             [detail |-> "Job analysis not found"]))
    /\ UNCHANGED <<hiring, matcher, matched, parsed, db>>

\* GET /api/v1/jobs/
list_job_analyses ==
    /\ served = None
    /\ \E req \in Requests :
         /\ Handles(req, "list_job_analyses")
         /\ served' = Some(Response(req, "list_job_analyses", 200,
                           [total |-> Len(db.job_analyses), limit |-> DefaultLimit, offset |-> 0,
                            analyses |-> Page(db.job_analyses, DefaultLimit, 0)]))
    /\ UNCHANGED <<hiring, matcher, matched, parsed, db>>

\* the endpoints that report that the service is up
StatusMessages ==
    [test_endpoint |-> "Resume API is working!",
     test_jobs_endpoint |-> "Jobs API is working!",
     test_cover_letter_endpoint |-> "Cover Letter API is working!",
     test_matching_endpoint |-> "Semantic Matching API is working!",
     root |-> "AI Resume & Recruitment System API",
     health_check |-> "healthy"]

\* GET .../test, GET / and GET /health
test_endpoint ==
    /\ served = None
    /\ \E req \in Requests :
         /\ Dispatch(app_routes, req.method, req.path) # None
         /\ RouteOf(req).endpoint \in DOMAIN StatusMessages
         /\ served' = Some(Response(req, RouteOf(req).endpoint, 200,
                           [message |-> StatusMessages[RouteOf(req).endpoint]]))
    /\ UNCHANGED <<hiring, matcher, matched, parsed, db>>

\* no route takes the request
not_found ==
    /\ served = None
    /\ \E req \in Requests :
         /\ Dispatch(app_routes, req.method, req.path) = None
         /\ served' = Some(Response(req, "", Unrouted(app_routes, req.path),
                           [detail |-> IF Unrouted(app_routes, req.path) = 405
                                       THEN "Method Not Allowed" ELSE "Not Found"]))
    /\ UNCHANGED <<hiring, matcher, matched, parsed, db>>

\* the response has gone out
Respond ==
    /\ served # None
    /\ served' = None
    /\ parsed' = None
    /\ UNCHANGED <<hiring, matcher, matched, db>>

NextParse ==
    \/ upload_resume(Uploads(MaxPages))
    \/ Respond

SpecParse == Init /\ [][NextParse]_vars

NextRoutes ==
    \/ upload_resume(FewUploads)
    \/ get_resume
    \/ list_resumes
    \/ delete_resume
    \/ analyze_job(FewPostings, {None}, Nows)
    \/ get_job_analysis
    \/ list_job_analyses
    \/ test_endpoint
    \/ not_found
    \/ Respond

SpecRoutes == Init /\ [][NextRoutes]_vars

\* the last parse result; the last response
Parsed == parsed[1]
Served == served[1]

\* the call has returned / the dict it returned
Done == pc = "done" /\ outcome.raised = None
Result == outcome.value


(***************************************************************************)
(* Properties                                                              *)
(***************************************************************************)

\* C1: the label is chosen by ordered strict comparisons of the final
\* scores: Active Hiring iff active > 1.5 * passive; otherwise
\* Pipeline/Evergreen iff passive > 1.5 * active; otherwise Mixed Signals.
\* Equality on either ratio selects neither Active nor Pipeline.
C1_LabelByStrictRatio ==
    Done =>
        LET a == Result.active_score
            p == Result.passive_score
        IN  /\ Result.hiring_type = ActiveHiring <=> 2 * a > 3 * p
            /\ Result.hiring_type = PipelineEvergreen
                   <=> (~(2 * a > 3 * p) /\ 2 * p > 3 * a)
            /\ Result.hiring_type = MixedSignals
                   <=> (~(2 * a > 3 * p) /\ ~(2 * p > 3 * a))
            /\ (2 * a = 3 * p \/ 2 * p = 3 * a) => Result.hiring_type = MixedSignals

\* a call whose active score is exactly 1.5 times its passive score
C1_Witness ==
    /\ Done
    /\ Result.active_score = 6
    /\ Result.passive_score = 4
    /\ Result.hiring_type = MixedSignals

\* C2: confidence is High iff the label is Active or Pipeline and the
\* winning score is at least 8, Medium iff the label is Active or Pipeline
\* and the winning score is below 8, and Low iff the label is Mixed Signals.
C2_ConfidenceTiers ==
    Done =>
        LET r == Result
            winning == IF r.hiring_type = ActiveHiring THEN r.active_score
                       ELSE r.passive_score
            decided == r.hiring_type \in {ActiveHiring, PipelineEvergreen}
        IN  /\ r.confidence = "High" <=> (decided /\ winning >= 8)
            /\ r.confidence = "Medium" <=> (decided /\ winning < 8)
            /\ r.confidence = "Low" <=> r.hiring_type = MixedSignals

\* an Active Hiring result whose winning score is exactly 8
C2_Witness ==
    /\ Done
    /\ Result.hiring_type = ActiveHiring
    /\ Result.active_score = 8
    /\ Result.confidence = "High"

\* C3: active_score = 2*raw_active + 3*[specific] + 2*[not suspicious] and
\* passive_score = 2*raw_passive + 3*[suspicious] + 3*[blast] + raw_red_flag
\* + 2*[stale], the raw scores being the sums of the per-category counts.
C3_WeightedScores ==
    Done =>
        LET r == Result
            raw_active == SumValues(r.active_indicators, ActiveOrder)
            raw_passive == SumValues(r.passive_indicators, PassiveOrder)
            raw_red_flag == SumValues(r.red_flags, RedFlagOrder)
            specific == r.specificity_analysis.is_specific
            suspicious == r.requisition_analysis.is_suspicious
            blast == r.location_analysis.is_location_blast
            bonus_active == (IF specific THEN 3 ELSE 0) + (IF ~suspicious THEN 2 ELSE 0)
            bonus_passive == (IF suspicious THEN 3 ELSE 0) + (IF blast THEN 3 ELSE 0)
                             + (IF r.is_stale THEN 2 ELSE 0)
        IN  /\ r.active_score = 2 * raw_active + bonus_active
            /\ r.passive_score = 2 * raw_passive + raw_red_flag + bonus_passive
            /\ r.red_flag_score = raw_red_flag
            /\ (raw_active = 0 /\ raw_passive = 0 /\ raw_red_flag = 0)
                   => (r.active_score = bonus_active /\ r.passive_score = bonus_passive)

\* a stale, blasted posting with keywords of all three tables
C3_Witness ==
    /\ Done
    /\ SumValues(Result.active_indicators, ActiveOrder) > 0
    /\ SumValues(Result.passive_indicators, PassiveOrder) > 0
    /\ Result.red_flag_score > 0
    /\ Result.location_analysis.is_location_blast
    /\ Result.is_stale

C5_IdIsUppercaseRun ==
    (Done /\ Result.requisition_analysis.has_req_id) =>
        LET id == Result.requisition_analysis.req_id
        IN  /\ \A i \in 1..Len(id) :
                   CharAt(id, i) \in UpperSet \cup DigitSet \cup {"_", "-"}
            /\ MatchAt(job_description, 1, "Requisition: EVERGREEN_ENG_2024")
                   => id = "EVERGREEN_ENG_2024"

\* C6: the first pattern's leftmost match is returned whenever the first
\* pattern matches anywhere, even when the second pattern matches earlier
\* in the text; the second pattern is used only when the first matches
\* nowhere; there is no ID only when neither matches.
C6_PatternOrder ==
    Done =>
        LET ra == Result.requisition_analysis
            s1 == SearchStart(job_description, patterns[1])
            s2 == SearchStart(job_description, patterns[2])
        IN  /\ s1 # 0 => (ra.has_req_id
                          /\ ra.req_id = Group1(job_description, patterns[1], s1))
            /\ (s1 = 0 /\ s2 # 0) => (ra.has_req_id
                          /\ ra.req_id = Group1(job_description, patterns[2], s2))
            /\ ~ra.has_req_id <=> (s1 = 0 /\ s2 = 0)

\* the second pattern matches before the first, and the first one's ID is returned
C6_Witness ==
    /\ Done
    /\ SearchStart(job_description, patterns[2]) # 0
    /\ SearchStart(job_description, patterns[1])
           > SearchStart(job_description, patterns[2])
    /\ Result.requisition_analysis.req_id
           = Group1(job_description, patterns[1],
                    SearchStart(job_description, patterns[1]))
    /\ Result.requisition_analysis.req_id
           # Group1(job_description, patterns[2],
                    SearchStart(job_description, patterns[2]))

\* C7: is_stale is true iff posting_age_days is present and > 45; a date
\* exactly 46 whole days before the evaluation time is stale, exactly 45
\* days is not, and without a posted_date the age is absent and is_stale false.
C7_StaleAbove45 ==
    Done =>
        LET r == Result
            given == posted_date # None /\ posted_date # Some("")
            post == IF given THEN fromisoformat(Replace(posted_date[1], "Z", "+00:00"))
                    ELSE ParseFailure
            exactly(n) == post.ok /\ now.secs = post.secs /\ now.ordinal - post.ordinal = n
        IN  /\ r.is_stale <=> (r.posting_age_days # None /\ r.posting_age_days[1] > 45)
            /\ exactly(46) => (r.posting_age_days = Some(46) /\ r.is_stale)
            /\ exactly(45) => (r.posting_age_days = Some(45) /\ ~r.is_stale)
            /\ posted_date = None => (r.posting_age_days = None /\ ~r.is_stale)

\* a posting exactly 46 days old
C7_Witness ==
    /\ Done
    /\ posted_date = Some("2024-02-14")
    /\ now = Clock(2024, 3, 31, 0)
    /\ Result.posting_age_days = Some(46)
    /\ Result.is_stale

\* C8: with a posted_date that cannot be parsed the call raises nothing and
\* returns exactly what it returns for the same text without a posted_date:
\* no age, not stale, no staleness bonus, no staleness insight.
C8_ParseFailureIgnored ==
    (/\ pc = "done"
     /\ posted_date # None /\ posted_date # Some("")
     /\ ~fromisoformat(Replace(posted_date[1], "Z", "+00:00")).ok) =>
        /\ outcome.raised = None
        /\ outcome = analyze_hiring_type(detector, job_description, None, now)
        /\ Result.posting_age_days = None
        /\ ~Result.is_stale
        /\ Result.passive_score
               = 2 * SumValues(Result.passive_indicators, PassiveOrder)
                 + Result.red_flag_score
                 + (IF Result.requisition_analysis.is_suspicious THEN 3 ELSE 0)
                 + (IF Result.location_analysis.is_location_blast THEN 3 ELSE 0)
        /\ \A k \in 1..Len(Result.insights) :
               ~MatchAt(Result.insights[k], 1, "Posting is ")

\* a call with an unparseable posted_date has returned
C8_Witness ==
    /\ Done
    /\ posted_date = Some("2024-02-30")
    /\ job_description = "talent pool, always hiring "
    /\ Result.posting_age_days = None

ResultFields ==
    {"hiring_type", "confidence", "explanation", "active_score", "passive_score",
     "red_flag_score", "active_indicators", "passive_indicators", "red_flags",
     "requisition_analysis", "location_analysis", "specificity_analysis",
     "posting_age_days", "is_stale", "insights", "application_strategy"}

\* C9: every call returns, raising nothing, a complete result: one of the
\* three labels, one of the three confidences, and every score, analysis,
\* insights and strategy field.
C9_NeverFails ==
    pc = "done" =>
        /\ outcome.raised = None
        /\ DOMAIN Result = ResultFields
        /\ Result.hiring_type \in {ActiveHiring, PipelineEvergreen, MixedSignals}
        /\ Result.confidence \in {"High", "Medium", "Low"}
        /\ Result.active_score \in Nat
        /\ Result.passive_score \in Nat
        /\ Result.red_flag_score \in Nat
        /\ Len(Result.application_strategy) \in {4, 5}
        /\ Len(Result.insights) >= 0

\* the empty description with a posted_date that is no date
C9_Witness ==
    /\ Done
    /\ job_description = ""
    /\ posted_date = Some("not a date")
    /\ Result.hiring_type = PipelineEvergreen

\* C10: a call with the same job_description, posted_date and current time
\* as an earlier call returns the identical result, whatever calls were
\* made before or in between.
C10_Deterministic ==
    (pc = "done" /\ earlier # None) =>
        ((/\ earlier[1].job_description = job_description
          /\ earlier[1].posted_date = posted_date
          /\ earlier[1].now = now)
            => earlier[1].outcome = outcome)

\* the same non-trivial call made a second time
C10_Witness ==
    /\ Done
    /\ earlier # None
    /\ earlier[1].job_description = job_description
    /\ earlier[1].posted_date = posted_date
    /\ earlier[1].now = now
    /\ job_description = "asap "
    /\ posted_date = Some("2024-02-14")
    /\ Result.is_stale

\* C11: whatever the interleaving of the stages of concurrent calls on the
\* one shared detector, the detector's three tables stay as constructed and
\* every call that has returned holds the result it would get when run alone
C11_Isolation ==
    /\ detector = NewDetector
    /\ \A c \in Clients :
          calls[c].pc = "done" => calls[c].outcome = Alone(calls[c])

\* one request has returned while another, with other arguments, is between
\* its stages
C11_Witness ==
    \E c, d \in Clients :
        /\ calls[c].pc = "done"
        /\ calls[c].outcome.raised = None
        /\ calls[c].outcome.value.active_indicators.urgency = 1
        /\ calls[d].pc \in {"counted", "structured"}
        /\ calls[d].job_description # calls[c].job_description

\* the location_blast keywords that occur in the lowercased description
BlastKeywordsIn(text) ==
    {i \in DOMAIN NewDetector.red_flags.location_blast :
        Contains(NewDetector.red_flags.location_blast[i], Lower(text))}

\* C12: the location analysis reports a blast exactly when at least one
\* location_blast keyword occurs or at least five city names are found: one
\* keyword suffices with no city, five city occurrences suffice with no
\* keyword, and no keyword with at most four cities is not a blast
C12_BlastRule ==
    Done =>
        LET la == Result.location_analysis
        IN  /\ la.blast_keywords = Cardinality(BlastKeywordsIn(job_description))
            /\ la.cities_mentioned \in Nat
            /\ la.is_location_blast
                   = (la.blast_keywords > 0 \/ la.cities_mentioned >= 5)
            /\ la.blast_keywords > 0 => la.is_location_blast
            /\ (la.blast_keywords = 0 /\ la.cities_mentioned >= 5)
                   => la.is_location_blast
            /\ (la.blast_keywords = 0 /\ la.cities_mentioned <= 4)
                   => ~la.is_location_blast

\* exactly five city names and no keyword: a blast
C12_Witness ==
    /\ Done
    /\ Result.location_analysis.blast_keywords = 0
    /\ Result.location_analysis.cities_mentioned = 5
    /\ Result.location_analysis.is_location_blast

\* the rule a note of details_found belongs to, 1..4 in rule order, and the
\* points of that rule
NoteRule(note) ==
    CASE note = "Specific manager mentioned" -> 1
      [] EndsWith(note, " specific departments") -> 2
      [] note = "Project/tech details mentioned" -> 3
      [] note = "Specific compensation mentioned" -> 4
      [] OTHER -> 0
RulePoints == <<2, 1, 1, 2>>
RECURSIVE NotePoints(_)
NotePoints(notes) ==
    IF notes = <<>> THEN 0
    ELSE RulePoints[NoteRule(Head(notes))] + NotePoints(Tail(notes))

\* the departments named in the lowercased text
DepartmentsIn(tl) == {k \in DOMAIN departments : Contains(departments[k], tl)}

\* C13: the specificity score is the sum of the points of the triggered
\* rules (manager 2, at least two departments 1, project/tech 1,
\* compensation 2), is_specific holds iff the score is at least 3, and
\* details_found holds one note per triggered rule, in rule order
C13_SpecificityRubric ==
    Done =>
        LET sa == Result.specificity_analysis
            notes == sa.details_found
            tl == Lower(job_description)
            triggered == {NoteRule(notes[i]) : i \in DOMAIN notes}
        IN  /\ \A i \in DOMAIN notes : NoteRule(notes[i]) \in 1..4
            /\ \A i, j \in DOMAIN notes :
                  i < j => NoteRule(notes[i]) < NoteRule(notes[j])
            /\ (1 \in triggered) = HasManager(tl)
            /\ (2 \in triggered) = (Cardinality(DepartmentsIn(tl)) >= 2)
            /\ 2 \in triggered =>
                  notes[CHOOSE i \in DOMAIN notes : NoteRule(notes[i]) = 2]
                     = ToString(Cardinality(DepartmentsIn(tl)))
                          \o " specific departments"
            /\ (3 \in triggered) = HasProject(tl)
            /\ (4 \in triggered) = HasCompensation(tl)
            /\ sa.specificity_score = NotePoints(notes)
            /\ sa.is_specific = (sa.specificity_score >= 3)

\* a manager and a project phrase only: score exactly 3, specific
C13_Witness ==
    /\ Done
    /\ Result.specificity_analysis.specificity_score = 3
    /\ Result.specificity_analysis.details_found
          = <<"Specific manager mentioned", "Project/tech details mentioned">>
    /\ Result.specificity_analysis.is_specific

\* the keywords of a list that occur in the text, whatever the case of the
\* text
KeywordsIn(keywords, text) ==
    {k \in DOMAIN keywords : Contains(keywords[k], Lower(text))}
CountsOf(matches, table, text) ==
    /\ DOMAIN matches = DOMAIN table
    /\ \A category \in DOMAIN table :
          matches[category] = Cardinality(KeywordsIn(table[category], text))

\* C14: each of the three count maps has exactly the categories of its
\* table, each mapped to the number of its keywords that occur in the text
\* case-insensitively; 'future openings' counts for the passive keyword
\* 'future openings' and for the active keyword 'opening'; for the empty
\* text every count is 0
C14_CountsPerCategory ==
    Done =>
        /\ CountsOf(Result.active_indicators, detector.active_indicators,
                    job_description)
        /\ CountsOf(Result.passive_indicators, detector.passive_indicators,
                    job_description)
        /\ CountsOf(Result.red_flags, detector.red_flags, job_description)
        /\ Contains("future openings", Lower(job_description)) =>
              /\ Result.passive_indicators.pipeline >= 1
              /\ Result.active_indicators.vacancy >= 1
        /\ job_description = "" =>
              /\ \A c \in DOMAIN Result.active_indicators :
                    Result.active_indicators[c] = 0
              /\ \A c \in DOMAIN Result.passive_indicators :
                    Result.passive_indicators[c] = 0
              /\ \A c \in DOMAIN Result.red_flags : Result.red_flags[c] = 0

\* 'Future Openings' in capitals, alone: one passive pipeline keyword, one
\* active vacancy keyword, zero in the other categories
C14_Witness ==
    /\ Done
    /\ job_description = "Future Openings "
    /\ Result.passive_indicators
          = [evergreen |-> 0, pipeline |-> 1, general |-> 0, vague |-> 0]
    /\ Result.active_indicators
          = [urgency |-> 0, specificity |-> 0, timeline |-> 0, vacancy |-> 1]

\* the raw scores: the sums of the returned count maps
RawActive == SumValues(Result.active_indicators, ActiveOrder)
RawPassive == SumValues(Result.passive_indicators, PassiveOrder)

StartsWith(s, prefix) == Len(s) >= Len(prefix) /\ SubSeq(s, 1, Len(prefix)) = prefix

\* the kinds of entry the insights list is due, in the fixed order
DueInsights ==
    (IF RawActive > 0 THEN <<"active count", "strongest">> ELSE <<>>)
    \o (IF RawPassive > 0 THEN <<"passive count", "strongest">> ELSE <<>>)
    \o (IF Result.red_flag_score > 0 THEN <<"red flags">> ELSE <<>>)
    \o (IF Result.requisition_analysis.is_suspicious
        THEN <<"requisition">> ELSE <<>>)
    \o (IF Result.location_analysis.is_location_blast THEN <<"location">> ELSE <<>>)
    \o (IF ~Result.specificity_analysis.is_specific
        THEN <<"low specificity">> ELSE <<>>)
    \o (IF Result.is_stale THEN <<"stale">> ELSE <<>>)

\* entry is an insight of the given kind
IsInsight(entry, kind) ==
    CASE kind = "active count" ->
            entry = ToString(RawActive) \o " active hiring signals detected"
      [] kind = "strongest" -> StartsWith(entry, "   -> Strongest: ")
      [] kind = "passive count" ->
            entry = ToString(RawPassive) \o " pipeline/evergreen signals detected"
      [] kind = "red flags" ->
            entry = ToString(Result.red_flag_score) \o " resume harvesting red flags"
      [] kind = "requisition" -> entry = Result.requisition_analysis.reason
      [] kind = "location" -> entry = Result.location_analysis.reason
      [] kind = "low specificity" ->
            entry = "Low specificity - vague job description"
      [] kind = "stale" ->
            /\ StartsWith(entry, "Posting is ")
            /\ EndsWith(entry, " days old (likely stale)")

\* C15: the insights list holds, in the fixed order active count, active
\* strongest, passive count, passive strongest, red flags, requisition
\* reason, location reason, low-specificity warning, staleness line,
\* exactly the entries whose condition holds; the active summary comes
\* before the passive one whichever is larger
C15_InsightOrder ==
    Done =>
        /\ Len(Result.insights) = Len(DueInsights)
        /\ \A i \in DOMAIN DueInsights :
              IsInsight(Result.insights[i], DueInsights[i])

\* all nine entries at once, with more passive than active signals
C15_Witness ==
    /\ Done
    /\ Len(Result.insights) = 9
    /\ RawPassive > RawActive
    /\ RawActive > 0

\* the first category in table order among those with the highest count
Strongest(matches, order) ==
    order[CHOOSE k \in DOMAIN order :
             /\ \A j \in DOMAIN order : matches[order[j]] <= matches[order[k]]
             /\ \A j \in 1..(k - 1) : matches[order[j]] < matches[order[k]]]
StrongestLine(matches, order) ==
    "   -> Strongest: " \o Strongest(matches, order) \o " ("
        \o ToString(matches[Strongest(matches, order)]) \o " mentions)"

\* C16: with a positive raw active (passive) score the Strongest line after
\* the active (passive) count line names the category with the highest
\* count, and among several with the highest count the one declared first
\* in the table
C16_StrongestFirstDeclared ==
    Done =>
        /\ RawActive > 0 =>
              Result.insights[2]
                 = StrongestLine(Result.active_indicators, ActiveOrder)
        /\ RawPassive > 0 =>
              Result.insights[(IF RawActive > 0 THEN 2 ELSE 0) + 2]
                 = StrongestLine(Result.passive_indicators, PassiveOrder)

\* timeline and vacancy tie at 1 above urgency at 0, and general and vague
\* tie at 1 above evergreen at 0: timeline and general are named
C16_Witness ==
    /\ Done
    /\ Result.active_indicators
          = [urgency |-> 0, specificity |-> 0, timeline |-> 1, vacancy |-> 1]
    /\ Result.passive_indicators
          = [evergreen |-> 0, pipeline |-> 0, general |-> 1, vague |-> 1]
    /\ Result.insights[2] = "   -> Strongest: timeline (1 mentions)"
    /\ Result.insights[4] = "   -> Strongest: general (1 mentions)"

\* the dict an earlier, remembered call returned
EarlierResult == earlier[1].outcome.value

\* C17: two calls that get the same label get the same explanation and the
\* same application strategy, whatever their scores, analyses and posting
\* ages; the strategy has 5 items for Active Hiring, 5 for
\* Pipeline/Evergreen and 4 for Mixed Signals
C17_LabelAloneDecides ==
    Done =>
        /\ Len(Result.application_strategy)
              = (CASE Result.hiring_type = ActiveHiring -> 5
                   [] Result.hiring_type = PipelineEvergreen -> 5
                   [] Result.hiring_type = MixedSignals -> 4)
        /\ (earlier # None /\ EarlierResult.hiring_type = Result.hiring_type) =>
              /\ EarlierResult.explanation = Result.explanation
              /\ EarlierResult.application_strategy = Result.application_strategy

\* two Active Hiring results with different scores, confidences and
\* staleness
C17_Witness ==
    /\ Done
    /\ earlier # None
    /\ Result.hiring_type = ActiveHiring
    /\ EarlierResult.hiring_type = ActiveHiring
    /\ EarlierResult.active_score # Result.active_score
    /\ EarlierResult.confidence # Result.confidence
    /\ EarlierResult.is_stale # Result.is_stale

\* C18: in every returned result active_score, passive_score and
\* red_flag_score are non-negative integers
C18_ScoresNonNegative ==
    Done =>
        /\ Result.active_score \in Nat
        /\ Result.passive_score \in Nat
        /\ Result.red_flag_score \in Nat

\* nothing adds to the active score: no keyword, no specificity, and a
\* suspicious requisition
C18_Witness ==
    /\ Done
    /\ Result.requisition_analysis.is_suspicious
    /\ Result.active_score = 0
    /\ Result.red_flag_score = 0
    /\ Result.passive_score > 0

\* scenario A: the call has returned for a description that contains the
\* three phrases and a requisition ID found not suspicious, posted 15 days
\* before the evaluation
ScenarioA ==
    /\ Done
    /\ Contains("immediate opening", job_description)
    /\ Contains("reporting directly to", job_description)
    /\ Contains("$140,000 - $180,000", job_description)
    /\ Result.requisition_analysis.has_req_id
    /\ ~Result.requisition_analysis.is_suspicious
    /\ Result.posting_age_days = Some(15)

\* C19 as stated: every scenario A description is labelled Active Hiring
\* with confidence High (final active score at least 8)
C19_ScenarioAHigh ==
    ScenarioA =>
        /\ Result.hiring_type = ActiveHiring
        /\ Result.confidence = "High"
        /\ Result.active_score >= 8

\* C19 amended: every scenario A description has a final active score of at
\* least 6 and is not stale; when it has no pipeline signal at all (final
\* passive score 0) it is labelled Active Hiring, with confidence High when
\* the final active score is at least 8 and Medium otherwise
C19_ScenarioAFloor ==
    ScenarioA =>
        /\ Result.active_score >= 6
        /\ ~Result.is_stale
        /\ Result.passive_score = 0 =>
              /\ Result.hiring_type = ActiveHiring
              /\ Result.confidence
                    = (IF Result.active_score >= 8 THEN "High" ELSE "Medium")

\* the job description of the source's test 1: Active Hiring, High, 13 to 0
C19_Witness ==
    /\ ScenarioA
    /\ job_description = active_job
    /\ Result.hiring_type = ActiveHiring
    /\ Result.confidence = "High"
    /\ Result.active_score = 13
    /\ Result.passive_score = 0

\* scenario B: the call has returned for a description that contains the
\* three phrases, at least ten city names and the requisition id, posted
\* 240 days before the evaluation
ScenarioB ==
    /\ Done
    /\ Contains("talent pool", Lower(job_description))
    /\ Contains("various positions", Lower(job_description))
    /\ Contains("email your resume to", Lower(job_description))
    /\ Result.location_analysis.cities_mentioned >= 10
    /\ Contains("EVERGREEN_ENG_2024", job_description)
    /\ Result.posting_age_days = Some(240)

\* C20 as stated: every scenario B description is labelled
\* Pipeline/Evergreen with confidence High and is stale
C20_ScenarioBPipeline ==
    ScenarioB =>
        /\ Result.hiring_type = PipelineEvergreen
        /\ Result.confidence = "High"
        /\ Result.is_stale

\* C20 amended: every scenario B description is stale and has a final
\* passive score of at least 11; when it has no active keyword and is not
\* specific it is labelled Pipeline/Evergreen with confidence High
C20_ScenarioBFloor ==
    ScenarioB =>
        /\ Result.is_stale
        /\ Result.passive_score >= 11
        /\ (RawActive = 0 /\ ~Result.specificity_analysis.is_specific) =>
              /\ Result.hiring_type = PipelineEvergreen
              /\ Result.confidence = "High"

\* the job description of the source's test 2: Pipeline/Evergreen, High,
\* stale, 24 to 2
C20_Witness ==
    /\ ScenarioB
    /\ job_description = pipeline_job
    /\ Result.hiring_type = PipelineEvergreen
    /\ Result.confidence = "High"
    /\ Result.is_stale
    /\ Result.passive_score = 24
    /\ Result.active_score = 2

\* the tier of a returned match score (in hundredths) and its fixed strings
TierLevel(match_score) ==
    IF match_score >= 8000 THEN "Excellent Match"
    ELSE IF match_score >= 6500 THEN "Good Match"
    ELSE IF match_score >= 5000 THEN "Fair Match"
    ELSE "Weak Match"
TierRecommendation(match_score) ==
    IF match_score >= 8000 THEN RecommendExcellent
    ELSE IF match_score >= 6500 THEN RecommendGood
    ELSE IF match_score >= 5000 THEN RecommendFair
    ELSE RecommendWeak

\* C21: in every result of match_resume_to_job and every entry of
\* match_resume_to_multiple_jobs the level is the tier of the returned
\* match_score (Excellent from 80, Good from 65, Fair from 50, else Weak),
\* and the recommendation is the fixed string of that tier
C21_LevelAgreesWithScore ==
    matched # None =>
        /\ \A i \in DOMAIN MatchEntries :
              MatchEntries[i].match_level = TierLevel(MatchEntries[i].match_score)
        /\ Matched.op = "match" =>
              Matched.value.recommendation = TierRecommendation(Matched.value.match_score)

\* C22: every returned match score lies within 0..100
C22_ScoreInRange ==
    matched # None =>
        \A i \in DOMAIN MatchEntries :
            MatchEntries[i].match_score >= 0 /\ MatchEntries[i].match_score <= 10000

\* where in the request's list the job of a returned entry stands
\* (the titles of a request's jobs are all different)
InputPosition(entry) ==
    CHOOSE i \in DOMAIN Matched.jobs : Matched.jobs[i].title = entry.job_title

\* C23: match_resume_to_multiple_jobs returns one entry per input job, none
\* dropped or duplicated, in descending order of match_score, entries of
\* equal match_score in their input order
C23_RankedPermutation ==
    (matched # None /\ Matched.op = "match-multiple") =>
        LET jobs == Matched.jobs
            ranked == Matched.value
        IN  /\ Len(ranked) = Len(jobs)
            /\ \A i \in DOMAIN jobs :
                  Cardinality({k \in DOMAIN ranked :
                                  /\ ranked[k].job_title = jobs[i].title
                                  /\ ranked[k].job_id = jobs[i].id
                                  /\ ranked[k].company = jobs[i].company}) = 1
            /\ \A k \in 1..(Len(ranked) - 1) :
                  ranked[k].match_score >= ranked[k + 1].match_score
            /\ \A k, m \in DOMAIN ranked :
                  (k < m /\ ranked[k].match_score = ranked[m].match_score) =>
                      InputPosition(ranked[k]) < InputPosition(ranked[m])

\* two jobs that score the same, returned in the order they were given, and
\* two jobs given lowest first, returned highest first
C23_Witness ==
    /\ matched # None
    /\ Matched.op = "match-multiple"
    /\ Len(Matched.value) = 2
    /\ Matched.value[1].match_score = Matched.value[2].match_score
    /\ Matched.value[1].job_title = "Business Analyst"
    /\ Matched.value[2].job_title = "Data Analyst"
    /\ Matched.jobs[1].title = "Business Analyst"

\* the job of the request that a returned entry belongs to
JobOf(entry, i) ==
    IF Matched.op = "match" THEN Matched.jobs[i] ELSE Matched.jobs[InputPosition(entry)]

\* C28: after any sequence of calls on the one matcher, every returned
\* score is the similarity of the resume text and the job text passed to
\* that call, whatever ids were passed and whatever texts earlier calls
\* passed with the same ids
C28_ScoreOfOwnTexts ==
    matched # None =>
        \A i \in DOMAIN MatchEntries :
            MatchEntries[i].match_score
              = Round2(calculate_similarity(
                           Encode(Matched.resume_text),
                           Encode(JobOf(MatchEntries[i], i).description)))

\* the experience keywords found in the text of the parsed resume
KeywordsFound(parsed_data) ==
    Cardinality({k \in DOMAIN experience_keywords :
                    Contains(experience_keywords[k], Lower(parsed_data.raw_text))})

\* C24: the ATS score is the sum of four components: contact (10 for the
\* email and 10 for the phone), skills (30 from 8 skills, 20 from 5, 10
\* from 3), education (20 iff there is an entry) and experience (30 from 4
\* of the 6 keywords, 20 from 2, 10 from 1); it lies in 0..100, is a multiple
\* of 10, and the cap at 100 never changes the sum
C24_ScoreRubric ==
    parsed # None =>
        LET d == Parsed.parsed_data
            n == Len(d.skills)
            found == KeywordsFound(d)
            contact == (IF d.email # None THEN 10 ELSE 0) + (IF d.phone # None THEN 10 ELSE 0)
            skills == IF n >= 8 THEN 30 ELSE IF n >= 5 THEN 20 ELSE IF n >= 3 THEN 10 ELSE 0
            education == IF Len(d.education) >= 1 THEN 20 ELSE 0
            experience == IF found >= 4 THEN 30 ELSE IF found >= 2 THEN 20
                          ELSE IF found >= 1 THEN 10 ELSE 0
        IN  /\ Parsed.ats_score = contact + skills + education + experience
            /\ contact + skills + education + experience <= 100
            /\ Parsed.ats_score \in 0..100
            /\ Parsed.ats_score % 10 = 0

\* a resume with every component at its highest
C24_Witness ==
    /\ parsed # None
    /\ Parsed.ats_score = 100
    /\ Len(Parsed.parsed_data.skills) >= 8
    /\ KeywordsFound(Parsed.parsed_data) >= 4
    /\ Parsed.parsed_data.email # None
    /\ Parsed.parsed_data.phone # None

\* the suggestions that name a missing item
MissingItemSuggestions ==
    {SuggestEmail, SuggestPhone, SuggestEducation, SuggestExperience}
        \cup {SuggestSkills(count) : count \in 0..4}

\* C29: the suggestions of a parsed resume are never empty: below 70 at
\* least one of the five missing-item suggestions, at 70 or 80 the two
\* 'good score' suggestions and nothing else, at 90 or 100 the one
\* 'excellent' suggestion and nothing else
C29_SuggestionsNeverEmpty ==
    parsed # None =>
        LET suggestions == Parsed.suggestions
            score == Parsed.ats_score
        IN  /\ suggestions # <<>>
            /\ score < 70 =>
                  \E k \in DOMAIN suggestions : suggestions[k] \in MissingItemSuggestions
            /\ score \in {70, 80} => suggestions = <<SuggestAchievements, SuggestKeywords>>
            /\ score \in {90, 100} => suggestions = <<SuggestNothing>>

\* a resume at the lower end of the 'good score' band
C29_Witness ==
    /\ parsed # None
    /\ Parsed.ats_score = 70
    /\ Parsed.suggestions = <<SuggestAchievements, SuggestKeywords>>

\* what the requisition analysis added to the returned active score and to
\* the returned passive score
RequisitionShareActive ==
    Result.active_score
        - 2 * SumValues(Result.active_indicators, ActiveOrder)
        - (IF Result.specificity_analysis.is_specific THEN 3 ELSE 0)
RequisitionSharePassive ==
    Result.passive_score
        - 2 * SumValues(Result.passive_indicators, PassiveOrder)
        - (IF Result.location_analysis.is_location_blast THEN 3 ELSE 0)
        - Result.red_flag_score
        - (IF Result.is_stale THEN 2 ELSE 0)

\* the label when the Pipeline check is made before the Active check
LabelPipelineFirst(final_active, final_passive) ==
    IF 2 * final_passive > 3 * final_active THEN PipelineEvergreen
    ELSE IF 2 * final_active > 3 * final_passive THEN ActiveHiring
    ELSE MixedSignals

\* C25: the Active condition and the Pipeline condition never hold
\* together; exactly one of the two requisition bonuses (+2 active, +3
\* passive) is applied, so the two final scores are never both zero; the
\* label is the one the checks give in the other order
C25_ChecksExclusive ==
    Done =>
        LET final_active == Result.active_score
            final_passive == Result.passive_score
        IN  /\ ~(2 * final_active > 3 * final_passive /\ 2 * final_passive > 3 * final_active)
            /\ ~(final_active = 0 /\ final_passive = 0)
            /\ IF Result.requisition_analysis.is_suspicious
               THEN RequisitionShareActive = 0 /\ RequisitionSharePassive = 3
               ELSE RequisitionShareActive = 2 /\ RequisitionSharePassive = 0
            /\ Result.hiring_type = LabelPipelineFirst(final_active, final_passive)

\* a pipeline posting with some active signal: both checks were made
C25_Witness ==
    /\ Done
    /\ Result.hiring_type = PipelineEvergreen
    /\ Result.active_score > 0
    /\ ~Result.requisition_analysis.is_suspicious

\* C26: blast_keywords of the location analysis is the location_blast count
\* of the red flags, so a location_blast keyword is counted twice in the
\* passive score: the +3 bonus and its red-flag count, at least 4 over the
\* rest of the score
C26_BlastCountedTwice ==
    Done =>
        LET keywords == Result.location_analysis.blast_keywords
            rest == 2 * SumValues(Result.passive_indicators, PassiveOrder)
                    + (IF Result.requisition_analysis.is_suspicious THEN 3 ELSE 0)
                    + (Result.red_flag_score - Result.red_flags["location_blast"])
                    + (IF Result.is_stale THEN 2 ELSE 0)
        IN  /\ keywords = Result.red_flags["location_blast"]
            /\ keywords >= 1 =>
                  /\ Result.location_analysis.is_location_blast
                  /\ Result.passive_score = rest + 3 + keywords
                  /\ Result.passive_score >= rest + 4

\* a posting with one location_blast keyword, written with capitals
C26_Witness ==
    /\ Done
    /\ job_description = "Multiple Locations "
    /\ Result.location_analysis.blast_keywords = 1
    /\ Result.passive_score = 7

\* C27: the empty job description without a posting date scores 0 active,
\* 3 passive and 0 red flags, is labelled Pipeline/Evergreen with confidence
\* Medium, and its insights are the no-requisition-ID flag and then the
\* low-specificity warning
C27_EmptyPosting ==
    (Done /\ job_description = "" /\ posted_date = None) =>
        /\ Result.active_score = 0
        /\ Result.passive_score = 3
        /\ Result.red_flag_score = 0
        /\ Result.hiring_type = PipelineEvergreen
        /\ Result.confidence = "Medium"
        /\ Result.insights = <<"No requisition ID found - possible unstructured posting",
                               "Low specificity - vague job description">>

C27_Witness ==
    /\ Done
    /\ job_description = ""
    /\ posted_date = None
    /\ Result.hiring_type = PipelineEvergreen

\* C30: a GET request for '/test' on the jobs router and on the resumes
\* router is answered by the test endpoint of that router, with its
\* 'API is working' message, and not by the lookup handler registered
\* before it
C30_TestEndpointAnswers ==
    (served # None /\ Served.method = "GET") =>
        /\ Served.path = JobsPrefix \o "/test" =>
              /\ Served.endpoint = "test_jobs_endpoint"
              /\ Served.status_code = 200
              /\ Served.body.message = "Jobs API is working!"
        /\ Served.path = ResumesPrefix \o "/test" =>
              /\ Served.endpoint = "test_endpoint"
              /\ Served.status_code = 200
              /\ Served.body.message = "Resume API is working!"

=============================================================================
